---- MODULE Spec2Model ----
(***************************************************************************)
(* Model of the query planning and safety-policy engine of the SQL agent   *)
(* (mcp_sql_agent.app.application).                                        *)
(*                                                                         *)
(* SQL text is a sequence of one-character strings, so that the text       *)
(* operations of the code (strip, lower, startswith, substring search and  *)
(* the word-bounded regular expressions) are computed character by         *)
(* character.  Scores are kept in hundredths (0.7 is 70).  A Python dict   *)
(* is a function whose DOMAIN is its key set.                              *)
(***************************************************************************)
EXTENDS Integers, Sequences, FiniteSets, TLC

VARIABLES sql, pc, read_only, plan, decision, limit, limited,
          safe, mode, safe_limit, preview_limit, queries, result,
          relimited, valid, db, risks, meta,
          schema, graph, ends, join_path, facts,
          ttl_seconds, store, now, written, op, reqs, translator,
          allow_write

vars == <<sql, pc, read_only, plan, decision, limit, limited,
          safe, mode, safe_limit, preview_limit, queries, result,
          relimited, valid, db, risks, meta,
          schema, graph, ends, join_path, facts,
          ttl_seconds, store, now, written, op, reqs, translator,
          allow_write>>

runVars == <<safe, mode, safe_limit, preview_limit, queries, result>>

coreVars == <<valid, db, risks, meta>>

\* the schema graph and the structural facts of _build_plan_json
joinVars == <<schema, graph, ends, join_path, facts>>

\* QueryCache (_ttl_seconds, _store), the clock time.time() reads, the value
\* set last for each key, the last operation, the translation requests and
\* the kind of translator the provider returns
cacheVars == <<ttl_seconds, store, now, written, op, reqs, translator>>

\* the allow_write argument of RunSqlWriteUseCase.execute
writeVars == <<allow_write>>

lateVars == <<joinVars, cacheVars, writeVars>>

\* ------------------------------------------------------------------ bounds
\* Number of body fragments appended to the head of an input statement.
MaxFrags == 3

\* Number of nodes of a plan tree handed to _detect_plan_risks.
MaxNodes == 4

\* Number of foreign keys of a schema.
MaxFks == 4

\* Last reading of the clock.
MaxTime == 4

\* ------------------------------------------------------- Python str helpers
UpperChars ==
  <<"A","B","C","D","E","F","G","H","I","J","K","L","M",
    "N","O","P","Q","R","S","T","U","V","W","X","Y","Z">>

LowerChars ==
  <<"a","b","c","d","e","f","g","h","i","j","k","l","m",
    "n","o","p","q","r","s","t","u","v","w","x","y","z">>

DigitChars == <<"0","1","2","3","4","5","6","7","8","9">>

Range(s) == {s[i] : i \in DOMAIN s}

\* str.strip()/rstrip() without arguments remove ASCII whitespace.
IsSpace(c) == c \in {" ", "\t", "\n", "\r", "\f"}

UpperSet == Range(UpperChars)

\* \w of the re module: letters, digits and the underscore.
WordCharSet == UpperSet \cup Range(LowerChars) \cup Range(DigitChars) \cup {"_"}

IsWordChar(c) == c \in WordCharSet

LowerOf == [c \in UpperSet |->
              LowerChars[CHOOSE i \in DOMAIN UpperChars : UpperChars[i] = c]]

LowerChar(c) == IF c \in UpperSet THEN LowerOf[c] ELSE c

\* str.lower()
Lower(s) == [i \in 1..Len(s) |-> LowerChar(s[i])]

\* str.rstrip()
RStrip(s) ==
  LET keep == {i \in 1..Len(s) : ~IsSpace(s[i])}
  IN  IF keep = {} THEN <<>>
      ELSE SubSeq(s, 1, CHOOSE i \in keep : \A j \in keep : j <= i)

\* str.lstrip()
LStrip(s) ==
  LET keep == {i \in 1..Len(s) : ~IsSpace(s[i])}
  IN  IF keep = {} THEN <<>>
      ELSE SubSeq(s, CHOOSE i \in keep : \A j \in keep : i <= j, Len(s))

\* str.strip()
Strip(s) == LStrip(RStrip(s))

\* str.startswith(p)
StartsWith(s, p) == Len(p) <= Len(s) /\ SubSeq(s, 1, Len(p)) = p

\* str.endswith(p)
EndsWith(s, p) ==
  Len(p) <= Len(s) /\ SubSeq(s, Len(s) - Len(p) + 1, Len(s)) = p

OccursAt(s, p, i) ==
  /\ i >= 1
  /\ i + Len(p) - 1 <= Len(s)
  /\ \A m \in 1..Len(p) : s[i + m - 1] = p[m]

\* p in s
Contains(s, p) == \E i \in 1..(Len(s) - Len(p) + 1) : OccursAt(s, p, i)

\* Positions where the regular expression \bw\b matches in s (w is made of
\* word characters only, so the two \b are a non-word neighbour or an end).
WordPositions(s, w) ==
  {i \in 1..Len(s) :
     /\ OccursAt(s, w, i)
     /\ (i = 1 \/ ~IsWordChar(s[i - 1]))
     /\ (i + Len(w) - 1 = Len(s) \/ ~IsWordChar(s[i + Len(w)]))}

\* s[:-1]
DropLast(s) == SubSeq(s, 1, Len(s) - 1)

\* f" {text} "
Padded(text) == <<" ">> \o text \o <<" ">>

RECURSIVE IntToStr(_)
\* str(n) for a non-negative int, as in the f-string of apply_limit
IntToStr(n) ==
  IF n < 10 THEN <<DigitChars[n + 1]>>
  ELSE IntToStr(n \div 10) \o <<DigitChars[(n % 10) + 1]>>

\* ---------------------------------------------------------------- keywords
KwSelect == <<"s","e","l","e","c","t">>
KwWith   == <<"w","i","t","h">>
KwJoin   == <<"j","o","i","n">>
KwLimit  == <<"l","i","m","i","t">>
KwWhereSp == <<" ","w","h","e","r","e"," ">>
KwLimitUp == <<" ","L","I","M","I","T"," ">>

\* ---------------------------------------------------- sql_validation.py
\* Variant: the semicolon is looked for without removing trailing whitespace.
strip_trailing_semicolon_no_rstrip(s) ==
  IF EndsWith(s, <<";">>)
  THEN [base |-> DropLast(s), semi |-> <<";">>]
  ELSE [base |-> s, semi |-> <<>>]

strip_trailing_semicolon(s) ==
  LET text == RStrip(s)
  IN  IF EndsWith(text, <<";">>)
      THEN [base |-> DropLast(text), semi |-> <<";">>]
      ELSE [base |-> text, semi |-> <<>>]

\* Variant: the search is made without re.IGNORECASE.
has_limit_case_sensitive(s) == WordPositions(s, KwLimit) # {}

\* re.search(r"\blimit\b", sql, re.IGNORECASE) is not None
has_limit(s) == WordPositions(Lower(s), KwLimit) # {}

\* the variant never adds the clause
apply_limit_never_adds(s, n) == [sql |-> s, added |-> FALSE]

apply_limit(s, n) ==
  IF has_limit(s)
  THEN [sql |-> s, added |-> FALSE]
  ELSE LET st == strip_trailing_semicolon(s)
       IN  [sql |-> st.base \o KwLimitUp \o IntToStr(n) \o st.semi,
            added |-> TRUE]

\* A message built by an f-string: the fixed text and the value put in it.
Msg(fmt, arg) == [fmt |-> fmt, arg |-> arg]

KwReadBlocked ==
  << <<"i","n","s","e","r","t">>, <<"u","p","d","a","t","e">>,
     <<"d","e","l","e","t","e">>, <<"d","r","o","p">>,
     <<"a","l","t","e","r">>, <<"t","r","u","n","c","a","t","e">>,
     <<"c","r","e","a","t","e">>, <<"g","r","a","n","t">>,
     <<"r","e","v","o","k","e">>, <<"c","o","p","y">> >>

\* Indexes of the blocked words with f" {word} " in f" {text} "
BlockedHits(text, blocked) ==
  {k \in DOMAIN blocked : Contains(Padded(text), Padded(blocked[k]))}

\* The first blocked word found, in list order
FirstBlocked(text, blocked) ==
  LET hits == BlockedHits(text, blocked)
  IN  blocked[CHOOSE k \in hits : \A j \in hits : k <= j]

\* Variant: any semicolon, the final one included, counts as a second statement.
validate_sql_select_any_semicolon(s) ==
  LET text == Lower(Strip(s))
  IN  IF text = <<>>
      THEN [ok |-> FALSE, err |-> Msg("SQL is empty.", <<>>)]
      ELSE IF ~(StartsWith(text, KwSelect) \/ StartsWith(text, KwWith))
      THEN [ok |-> FALSE, err |-> Msg("Only SELECT queries are allowed.", <<>>)]
      ELSE IF Contains(text, <<";">>)
      THEN [ok |-> FALSE,
            err |-> Msg("Multiple statements are not allowed.", <<>>)]
      ELSE IF BlockedHits(text, KwReadBlocked) # {}
      THEN [ok |-> FALSE,
            err |-> Msg("Blocked keyword: {word}.",
                        FirstBlocked(text, KwReadBlocked))]
      ELSE [ok |-> TRUE, err |-> Msg("", <<>>)]

validate_sql_select(s) ==
  LET text == Lower(Strip(s))
  IN  IF text = <<>>
      THEN [ok |-> FALSE, err |-> Msg("SQL is empty.", <<>>)]
      ELSE IF ~(StartsWith(text, KwSelect) \/ StartsWith(text, KwWith))
      THEN [ok |-> FALSE, err |-> Msg("Only SELECT queries are allowed.", <<>>)]
      ELSE IF Contains(DropLast(text), <<";">>)
      THEN [ok |-> FALSE,
            err |-> Msg("Multiple statements are not allowed.", <<>>)]
      ELSE IF BlockedHits(text, KwReadBlocked) # {}
      THEN [ok |-> FALSE,
            err |-> Msg("Blocked keyword: {word}.",
                        FirstBlocked(text, KwReadBlocked))]
      ELSE [ok |-> TRUE, err |-> Msg("", <<>>)]

KwInsert == <<"i","n","s","e","r","t">>
KwUpdate == <<"u","p","d","a","t","e">>
KwDelete == <<"d","e","l","e","t","e">>

KwWriteBlocked ==
  << <<"d","r","o","p">>, <<"a","l","t","e","r">>,
     <<"t","r","u","n","c","a","t","e">>, <<"c","r","e","a","t","e">>,
     <<"g","r","a","n","t">>, <<"r","e","v","o","k","e">>,
     <<"c","o","p","y">> >>

StartsAsWrite(text) ==
  \/ StartsWith(text, KwInsert)
  \/ StartsWith(text, KwUpdate)
  \/ StartsWith(text, KwDelete)

\* Variant: the blocklist of the read validator is used for writes.
validate_sql_write_read_blocklist(s) ==
  LET text == Lower(Strip(s))
  IN  IF text = <<>>
      THEN [ok |-> FALSE, err |-> Msg("SQL is empty.", <<>>)]
      ELSE IF ~StartsAsWrite(text)
      THEN [ok |-> FALSE,
            err |-> Msg("Only INSERT/UPDATE/DELETE are allowed.", <<>>)]
      ELSE IF Contains(DropLast(text), <<";">>)
      THEN [ok |-> FALSE,
            err |-> Msg("Multiple statements are not allowed.", <<>>)]
      ELSE IF BlockedHits(text, KwReadBlocked) # {}
      THEN [ok |-> FALSE,
            err |-> Msg("Blocked keyword: {word}.",
                        FirstBlocked(text, KwReadBlocked))]
      ELSE [ok |-> TRUE, err |-> Msg("", <<>>)]

validate_sql_write(s) ==
  LET text == Lower(Strip(s))
  IN  IF text = <<>>
      THEN [ok |-> FALSE, err |-> Msg("SQL is empty.", <<>>)]
      ELSE IF ~StartsAsWrite(text)
      THEN [ok |-> FALSE,
            err |-> Msg("Only INSERT/UPDATE/DELETE are allowed.", <<>>)]
      ELSE IF Contains(DropLast(text), <<";">>)
      THEN [ok |-> FALSE,
            err |-> Msg("Multiple statements are not allowed.", <<>>)]
      ELSE IF BlockedHits(text, KwWriteBlocked) # {}
      THEN [ok |-> FALSE,
            err |-> Msg("Blocked keyword: {word}.",
                        FirstBlocked(text, KwWriteBlocked))]
      ELSE [ok |-> TRUE, err |-> Msg("", <<>>)]

\* ------------------------------------------------------ safety_policy.py
DictGet(d, k, default) == IF k \in DOMAIN d THEN d[k] ELSE default

\* Variant: the read_only flag is not consulted.
read_only_rule_ignores_flag(text, ro) ==
  ~(StartsWith(text, KwSelect) \/ StartsWith(text, KwWith))

read_only_rule(text, ro) ==
  ro /\ ~(StartsWith(text, KwSelect) \/ StartsWith(text, KwWith))

single_statement_rule(text) == Contains(DropLast(text), <<";">>)

\* Variant: presence of a space-delimited join instead of the number of joins.
join_count_presence(text) ==
  IF Contains(Padded(text), <<" ","j","o","i","n"," ">>) THEN 1 ELSE 0

join_count(text) == Cardinality(WordPositions(text, KwJoin))

unbounded_rule(text) == ~Contains(Padded(text), KwWhereSp) /\ ~has_limit(text)

\* Variant: safe_sql is compared with the input without strip().lower().
safe_limit_decision_raw(text, p) ==
  LET safe_sql == DictGet(p, "safe_sql", <<>>)
  IN  IF safe_sql # <<>> /\ safe_sql # text
      THEN [allowed |-> TRUE, policy |-> "SAFE_LIMIT_APPLIED",
            reason |-> "NO_WHERE_OR_LIMIT",
            suggested_fix |-> "Add WHERE filters or a LIMIT clause."]
      ELSE [allowed |-> FALSE, policy |-> "UNBOUNDED_READ",
            reason |-> "NO_WHERE_OR_LIMIT",
            suggested_fix |-> "Add WHERE filters or a LIMIT clause."]

safe_limit_decision(text, p) ==
  LET safe_sql == DictGet(p, "safe_sql", <<>>)
  IN  IF safe_sql # <<>> /\ Lower(Strip(safe_sql)) # text
      THEN [allowed |-> TRUE, policy |-> "SAFE_LIMIT_APPLIED",
            reason |-> "NO_WHERE_OR_LIMIT",
            suggested_fix |-> "Add WHERE filters or a LIMIT clause."]
      ELSE [allowed |-> FALSE, policy |-> "UNBOUNDED_READ",
            reason |-> "NO_WHERE_OR_LIMIT",
            suggested_fix |-> "Add WHERE filters or a LIMIT clause."]

\* Variant: the threshold is exclusive.
risk_decision_strict(p) ==
  IF DictGet(p, "risk_score", 0) > 70
  THEN [allowed |-> FALSE, policy |-> "RISK_THRESHOLD",
        reason |-> "HIGH_RISK_SCORE",
        suggested_fix |-> "Apply filters, add LIMIT, or optimize indexes."]
  ELSE [allowed |-> TRUE, policy |-> "ALLOW", reason |-> "",
        suggested_fix |-> ""]

\* Variant: the high-risk denial carries no remedy.
risk_decision_no_fix(p) ==
  IF DictGet(p, "risk_score", 0) >= 70
  THEN [allowed |-> FALSE, policy |-> "RISK_THRESHOLD",
        reason |-> "HIGH_RISK_SCORE", suggested_fix |-> ""]
  ELSE [allowed |-> TRUE, policy |-> "ALLOW", reason |-> "",
        suggested_fix |-> ""]

risk_decision(p) ==
  IF DictGet(p, "risk_score", 0) >= 70
  THEN [allowed |-> FALSE, policy |-> "RISK_THRESHOLD",
        reason |-> "HIGH_RISK_SCORE",
        suggested_fix |-> "Apply filters, add LIMIT, or optimize indexes."]
  ELSE [allowed |-> TRUE, policy |-> "ALLOW", reason |-> "",
        suggested_fix |-> ""]

\* Variant: the join rule is tried before the read-only and statement rules.
evaluate_policy_join_first(s, p, ro) ==
  LET text == Lower(Strip(s))
  IN  IF join_count(text) >= 3
      THEN [allowed |-> FALSE, policy |-> "JOIN_COMPLEXITY",
            reason |-> "TOO_MANY_JOINS",
            suggested_fix |-> "Reduce joins or add filters and indexes."]
      ELSE IF read_only_rule(text, ro)
      THEN [allowed |-> FALSE, policy |-> "READ_ONLY",
            reason |-> "WRITE_OPERATION_DETECTED",
            suggested_fix |->
              "Use SELECT or switch to a write tool with explicit approval."]
      ELSE IF single_statement_rule(text)
      THEN [allowed |-> FALSE, policy |-> "SINGLE_STATEMENT",
            reason |-> "MULTIPLE_STATEMENTS_DETECTED",
            suggested_fix |-> "Send a single statement per request."]
      ELSE IF unbounded_rule(text)
      THEN safe_limit_decision(text, p)
      ELSE risk_decision(p)

evaluate_policy(s, p, ro) ==
  LET text == Lower(Strip(s))
  IN  IF read_only_rule(text, ro)
      THEN [allowed |-> FALSE, policy |-> "READ_ONLY",
            reason |-> "WRITE_OPERATION_DETECTED",
            suggested_fix |->
              "Use SELECT or switch to a write tool with explicit approval."]
      ELSE IF single_statement_rule(text)
      THEN [allowed |-> FALSE, policy |-> "SINGLE_STATEMENT",
            reason |-> "MULTIPLE_STATEMENTS_DETECTED",
            suggested_fix |-> "Send a single statement per request."]
      ELSE IF join_count(text) >= 3
      THEN [allowed |-> FALSE, policy |-> "JOIN_COMPLEXITY",
            reason |-> "TOO_MANY_JOINS",
            suggested_fix |-> "Reduce joins or add filters and indexes."]
      ELSE IF unbounded_rule(text)
      THEN safe_limit_decision(text, p)
      ELSE risk_decision(p)

\* -------------------------------------------------------- sql_planning.py
\* Optional values: None is the empty sequence, a value v is <<v>>.
None == <<>>

\* d.get(k), as an optional value
OptGet(d, k) == IF k \in DOMAIN d THEN <<d[k]>> ELSE None

EmptyDict == <<>>

KwExplainSqlite ==
  <<"E","X","P","L","A","I","N"," ","Q","U","E","R","Y"," ","P","L","A","N"," ">>

KwExplainJson ==
  <<"E","X","P","L","A","I","N"," ","(","F","O","R","M","A","T"," ",
    "J","S","O","N",")"," ">>

KwExplain == <<"E","X","P","L","A","I","N"," ">>

KwScan == <<"s","c","a","n">>

KwOrderBySp == <<" ","o","r","d","e","r"," ","b","y"," ">>

KwJoinSp == <<" ","j","o","i","n"," ">>

PostgresDialects == {"postgresql", "postgres"}

_build_explain_sql(s, dialect) ==
  LET base == strip_trailing_semicolon(s).base
  IN  IF dialect = "sqlite" THEN KwExplainSqlite \o base
      ELSE IF dialect \in PostgresDialects THEN KwExplainJson \o base
      ELSE KwExplain \o base

\* The adapter is given by what its calls answer: the dialect tag, and for
\* query(explain_sql) either rows or a failure.
_run_explain(s, adapter) ==
  LET explain_sql == _build_explain_sql(s, adapter.dialect)
  IN  IF adapter.explain_fails
      THEN [dialect |-> adapter.dialect, error |-> "str(exc)",
            explain_sql |-> explain_sql]
      ELSE [dialect |-> adapter.dialect, explain_sql |-> explain_sql,
            rows |-> adapter.rows]

\* The value of the "QUERY PLAN" column is a tagged value: a JSON string
\* (with its parse result), a list, a dict, or anything else.
\* Column names k with k.lower().replace("_", " ") == "query plan"
QueryPlanKeys ==
  {"QUERY PLAN", "query plan", "Query Plan", "QUERY_PLAN", "query_plan",
   "Query_Plan"}

_extract_postgres_plan(rows) ==
  IF rows = <<>> THEN EmptyDict
  ELSE LET first == rows[1]
           keys  == DOMAIN first \cap QueryPlanKeys
           raw   == IF keys # {} THEN first[CHOOSE k \in keys : TRUE]
                    ELSE [kind |-> "none"]
           bad   == raw.kind = "str" /\ ~raw.json_ok
           v1    == IF raw.kind = "str" /\ raw.json_ok THEN raw.parsed ELSE raw
           v2    == IF v1.kind = "list" /\ v1.items # <<>>
                    THEN v1.items[1] ELSE v1
       IN  IF bad THEN EmptyDict
           ELSE IF v2.kind = "dict" /\ "Plan" \in DOMAIN v2.fields
           THEN v2.fields["Plan"]
           ELSE IF v2.kind = "dict" THEN v2.fields
           ELSE EmptyDict

Min(a, b) == IF a <= b THEN a ELSE b

\* The character class [a-z0-9_\\.] of the extractor patterns: the doubled
\* backslash of the raw string puts the backslash itself in the class.
NameClass ==
  Range(LowerChars) \cup Range(DigitChars) \cup {"_", "\\", "."}

\* kw\\s+ at position i: the keyword, a backslash, then a run of the letter s
\* that ends at position e (the raw-string pattern kw\\s+ reads so).
KwRunAt(text, kw, i, e) ==
  /\ OccursAt(text, kw \o <<"\\">>, i)
  /\ e >= i + Len(kw) + 1
  /\ e <= Len(text)
  /\ \A m \in (i + Len(kw) + 1)..e : text[m] = "s"

\* re.findall(r"kw\\s+([a-z0-9_\\.]+)", text) finds something: after the
\* keyword and the backslash an s, then one more character of the class (a
\* further s is one).
NameAfter(text, kw) ==
  \E i \in 1..(Len(text) - Len(kw) - 2) :
    /\ KwRunAt(text, kw, i, i + Len(kw) + 1)
    /\ i + Len(kw) + 2 <= Len(text)
    /\ text[i + Len(kw) + 2] \in NameClass

KwFrom == <<"f","r","o","m">>
KwWhere == <<"w","h","e","r","e">>
KwGroup == <<"g","r","o","u","p">>
KwOrder == <<"o","r","d","e","r">>
KwBy == <<"b","y">>

\* _extract_joins(sql) is not empty
JoinsIn(text) == NameAfter(text, KwJoin)

_extract_joins(s) == JoinsIn(Lower(s))

\* _extract_tables(sql) is not empty
TablesIn(text) == NameAfter(text, KwFrom) \/ NameAfter(text, KwJoin)

\* End of the longest run of characters of the set cls that starts at p
\* (p - 1 when text[p] is not in cls).
RECURSIVE RunEnd(_, _, _)
RunEnd(text, cls, p) ==
  IF p <= Len(text) /\ text[p] \in cls THEN RunEnd(text, cls, p + 1) ELSE p - 1

\* The match of kw\\s+([a-z0-9_\\.]+) that begins at i, as the bounds of its
\* group: s+ takes the whole run of s and gives its last s back when no
\* character of the class follows the run.
GroupAfterRun(text, r, p) ==
  IF r + 1 <= Len(text) /\ text[r + 1] \in NameClass
  THEN <<[first |-> r + 1, last |-> RunEnd(text, NameClass, r + 1)]>>
  ELSE IF r > p THEN <<[first |-> r, last |-> r]>>
  ELSE None

NameMatchAt(text, kw, i) ==
  IF OccursAt(text, kw \o <<"\\", "s">>, i)
  THEN GroupAfterRun(text, RunEnd(text, {"s"}, i + Len(kw) + 1),
                     i + Len(kw) + 1)
  ELSE None

\* re.findall(pattern, text) from position i on: the groups of the matches
\* from left to right, each search starting where the last match ended.
RECURSIVE FindAllFrom(_, _, _)
FindAllAfter(text, kw, i, found) ==
  IF found = None THEN FindAllFrom(text, kw, i + 1)
  ELSE <<SubSeq(text, found[1].first, found[1].last)>>
         \o FindAllFrom(text, kw, found[1].last + 1)

FindAllFrom(text, kw, i) ==
  IF i > Len(text) THEN <<>>
  ELSE FindAllAfter(text, kw, i, NameMatchAt(text, kw, i))

FindAll(text, kw) == FindAllFrom(text, kw, 1)

\* t.split(".")[-1]
RECURSIVE LastSegment(_)
LastSegment(name) ==
  IF \A i \in DOMAIN name : name[i] # "."
  THEN name
  ELSE LastSegment(Tail(name))

\* list(dict.fromkeys(names)) after the split of each name
RECURSIVE FirstOccurrences(_, _)
FirstOccurrences(names, seen) ==
  IF names = <<>> THEN <<>>
  ELSE IF LastSegment(Head(names)) \in seen
  THEN FirstOccurrences(Tail(names), seen)
  ELSE <<LastSegment(Head(names))>>
         \o FirstOccurrences(Tail(names),
                             seen \cup {LastSegment(Head(names))})

TableNames(text) ==
  FirstOccurrences(FindAll(text, KwFrom) \o FindAll(text, KwJoin), {})

_extract_tables(s) == TableNames(Lower(s))

\* kw\\s+by at position p
KwByAt(text, kw, p) ==
  \E e \in p..Len(text) : KwRunAt(text, kw, p, e) /\ OccursAt(text, KwBy, e + 1)

\* (group\\s+by|order\\s+by|limit|$) at position p; $ is the end of the text
\* or the place before a final newline.
FilterStopAt(text, p) ==
  \/ p = Len(text) + 1
  \/ (p = Len(text) /\ text[p] = "\n")
  \/ OccursAt(text, KwLimit, p)
  \/ KwByAt(text, KwGroup, p)
  \/ KwByAt(text, KwOrder, p)

\* Ends e of the group (.*?) that starts at g: no newline in it and a stop
\* right after it.
ClauseEnds(text, g) ==
  {e \in (g - 1)..Len(text) :
     /\ \A m \in g..e : text[m] # "\n"
     /\ FilterStopAt(text, e + 1)}

\* Ends of the run s+ after where\\ at i from which the match can go on.
WhereRuns(text, i) ==
  {e \in 1..Len(text) :
     KwRunAt(text, KwWhere, i, e) /\ ClauseEnds(text, e + 1) # {}}

SetMax(S) == CHOOSE x \in S : \A y \in S : y <= x

SetMin(S) == CHOOSE x \in S : \A y \in S : x <= y

\* group(1) of the match re.search returns: the leftmost start, the longest
\* run s+ (greedy), the shortest group (lazy).
WhereClause(text, starts) ==
  LET g == SetMax(WhereRuns(text, SetMin(starts))) + 1
  IN  SubSeq(text, g, SetMin(ClauseEnds(text, g)))

\* _extract_filters(sql) is not empty
FiltersOf(text, starts) ==
  IF starts = {} THEN FALSE ELSE Strip(WhereClause(text, starts)) # <<>>

FiltersIn(text) ==
  FiltersOf(text, {i \in 1..Len(text) :
                     OccursAt(text, KwWhere, i) /\ WhereRuns(text, i) # {}})

_extract_filters(s) == FiltersIn(Lower(s))

\* re.search(r"\\blimit\\s+(\\d+)", sql.lower()): a backslash, blimit, a
\* backslash, a run of s, a backslash and a run of d.
LimitPatternMatch(text) ==
  \E i \in 1..Len(text) :
    /\ OccursAt(text, <<"\\","b","l","i","m","i","t">>, i)
    /\ \E e \in i..Len(text) :
         /\ KwRunAt(text, <<"\\","b","l","i","m","i","t">>, i, e)
         /\ OccursAt(text, <<"\\","d">>, e + 1)

\* _extract_limit: None without a match; with a match int() is applied to a
\* group that starts with a backslash and raises ValueError.
LimitIn(text) == [raised |-> LimitPatternMatch(text), value |-> None]

_extract_limit(s) == LimitIn(Lower(s))

\* The characters of table names in code-point order, which is the order
\* sorted() compares strings by.
CodeOrder == <<".">> \o DigitChars \o UpperChars \o <<"\\", "_">> \o LowerChars

CharRank(c) == CHOOSE i \in DOMAIN CodeOrder : CodeOrder[i] = c

\* a < b for Python strings
StrLess(a, b) ==
  \E k \in 1..(Len(b)) :
    /\ \A m \in 1..(k - 1) : m <= Len(a) /\ a[m] = b[m]
    /\ \/ k = Len(a) + 1
       \/ k <= Len(a) /\ CharRank(a[k]) < CharRank(b[k])

\* sorted(v) for a set of strings
RECURSIVE SortedSeq(_)
SortedSeq(S) ==
  IF S = {} THEN <<>>
  ELSE LET least == CHOOSE x \in S : \A y \in S \ {x} : StrLess(x, y)
       IN  <<least>> \o SortedSeq(S \ {least})

\* graph.setdefault(a, set()).add(b)
AddNeighbor(adj, a, b) ==
  [n \in DOMAIN adj \cup {a} |->
     (IF n \in DOMAIN adj THEN adj[n] ELSE {}) \cup (IF n = a THEN {b} ELSE {})]

\* The loop of _build_schema_graph over foreign_keys[i..]: an entry without
\* a table or a referred table is skipped, one direction only is the variant.
RECURSIVE AddForeignKeys_one_direction(_, _, _)
AddForeignKeys_one_direction(fks, i, adj) ==
  IF i > Len(fks) THEN adj
  ELSE IF \/ DictGet(fks[i], "table", None) = None
          \/ DictGet(fks[i], "referred_table", None) = None
  THEN AddForeignKeys_one_direction(fks, i + 1, adj)
  ELSE AddForeignKeys_one_direction(fks, i + 1,
         AddNeighbor(adj, fks[i]["table"], fks[i]["referred_table"]))

RECURSIVE AddForeignKeys(_, _, _)
AddForeignKeys(fks, i, adj) ==
  IF i > Len(fks) THEN adj
  ELSE IF \/ DictGet(fks[i], "table", None) = None
          \/ DictGet(fks[i], "referred_table", None) = None
  THEN AddForeignKeys(fks, i + 1, adj)
  ELSE AddForeignKeys(fks, i + 1,
         AddNeighbor(AddNeighbor(adj, fks[i]["table"],
                                 fks[i]["referred_table"]),
                     fks[i]["referred_table"], fks[i]["table"]))

SortedNeighbors(adj) == [n \in DOMAIN adj |-> SortedSeq(adj[n])]

_build_schema_graph(sch) ==
  SortedNeighbors(AddForeignKeys(DictGet(sch, "foreign_keys", <<>>), 1,
                                 EmptyDict))

\* graph.get(node, [])
Neighbors(g, node) == IF node \in DOMAIN g THEN g[node] ELSE <<>>

QueueEntry(node, way) == [node |-> node, path |-> way]

\* The for loop of _find_join_path over the neighbours nbrs[i..] of the node
\* taken from the queue: the path when the end is met, else the queue and
\* the visited set as the loop leaves them.
RECURSIVE VisitNeighbors(_, _, _, _, _, _)
VisitNeighbors(nbrs, i, end, way, queue, visited) ==
  IF i > Len(nbrs)
  THEN [found |-> None, queue |-> queue, visited |-> visited]
  ELSE IF nbrs[i] \in visited
  THEN VisitNeighbors(nbrs, i + 1, end, way, queue, visited)
  ELSE IF nbrs[i] = end
  THEN [found |-> <<Append(way, nbrs[i])>>, queue |-> queue,
        visited |-> visited]
  ELSE VisitNeighbors(nbrs, i + 1, end, way,
                      Append(queue, QueueEntry(nbrs[i], Append(way, nbrs[i]))),
                      visited \cup {nbrs[i]})

\* The while loop of _find_join_path.
RECURSIVE SearchQueue(_, _, _, _), AfterVisit(_, _, _)
AfterVisit(g, end, step) ==
  IF step.found # None THEN step.found[1]
  ELSE SearchQueue(g, end, step.queue, step.visited)

SearchQueue(g, end, queue, visited) ==
  IF queue = <<>> THEN <<>>
  ELSE AfterVisit(g, end,
         VisitNeighbors(Neighbors(g, Head(queue).node), 1, end,
                        Head(queue).path, Tail(queue), visited))

\* the variant searches without the test for equal end points
_find_join_path_no_identity(g, start, end) ==
  SearchQueue(g, end, <<QueueEntry(start, <<start>>)>>, {start})

_find_join_path(g, start, end) ==
  IF start = end THEN <<start>>
  ELSE SearchQueue(g, end, <<QueueEntry(start, <<start>>)>>, {start})

\* join_paths of _build_plan_json: the pairs tables[i], tables[j] with i < j
\* in the order of the two loops, a pair entering when its path is not empty.
JoinPathEntry(left, right, way) ==
  IF way = <<>> THEN <<>>
  ELSE <<[from |-> left, to |-> right, path |-> way]>>

RECURSIVE PairPaths(_, _, _, _)
PairPaths(tables, g, i, j) ==
  IF i > Len(tables) THEN <<>>
  ELSE IF j > Len(tables) THEN PairPaths(tables, g, i + 1, i + 2)
  ELSE JoinPathEntry(tables[i], tables[j],
                     _find_join_path(g, tables[i], tables[j]))
         \o PairPaths(tables, g, i, j + 1)

\* if schema: a dict without keys and None are both false
JoinPaths(tables, sch) ==
  IF sch = EmptyDict THEN <<>>
  ELSE PairPaths(tables, _build_schema_graph(sch), 1, 2)

\* confidence of _build_plan_json, in hundredths
Confidence(tables, filters, limit_value, joins) ==
  Min(60 + (IF tables THEN 20 ELSE 0)
         + (IF filters \/ limit_value # None THEN 10 ELSE 0)
         + (IF joins THEN 10 ELSE 0), 100)

\* intent of _build_plan_json
Intent(text) ==
  IF \/ StartsWith(text, <<"i","n","s","e","r","t">>)
     \/ StartsWith(text, <<"u","p","d","a","t","e">>)
     \/ StartsWith(text, <<"d","e","l","e","t","e">>)
  THEN "write" ELSE "read"

\* _build_plan_json without a schema: the intent, whether each extractor found
\* something, and the confidence.
PlanJson(intent, tables, joins, filters, limit_value) ==
  [intent |-> intent, tables |-> tables, joins |-> joins,
   filters |-> filters, limit |-> limit_value,
   confidence |-> Confidence(tables, filters, limit_value, joins)]

PlanJsonOf(text, stripped) ==
  PlanJson(Intent(stripped), TablesIn(text), JoinsIn(text), FiltersIn(text),
           LimitIn(text).value)

_build_plan_json(s) == PlanJsonOf(Lower(s), Lower(Strip(s)))

\* _build_plan_json(sql, schema=schema): the lists of tables and joins and
\* the join paths beside the facts above.
PlanJsonWithPaths(basic, tables, joins, sch) ==
  ("tables" :> tables) @@ ("joins" :> joins)
    @@ ("join_paths" :> JoinPaths(tables, sch)) @@ basic

PlanJsonWithSchema(text, stripped, sch) ==
  PlanJsonWithPaths(PlanJsonOf(text, stripped), TableNames(text),
                    FindAll(text, KwJoin), sch)

_build_plan_json_with_schema(s, sch) ==
  PlanJsonWithSchema(Lower(s), Lower(Strip(s)), sch)

RECURSIVE WalkStack(_)
\* The recursion of _walk_plan_nodes with its pending calls as a stack: a
\* node, then the walk of each of its child plans in order.
WalkStack(stack) ==
  IF stack = <<>> THEN <<>>
  ELSE IF DOMAIN Head(stack) = {} THEN WalkStack(Tail(stack))
  ELSE <<Head(stack)>>
       \o WalkStack(DictGet(Head(stack), "Plans", <<>>) \o Tail(stack))

\* Variant: the walk stops at the children of the root.
_walk_plan_nodes_one_level(node) ==
  IF DOMAIN node = {} THEN <<>>
  ELSE <<node>> \o DictGet(node, "Plans", <<>>)

_walk_plan_nodes(node) == WalkStack(<<node>>)

_estimate_from_plan(dialect, explain_rows) ==
  LET empty == [estimate_ms |-> None, plan_rows |-> None, total_cost |-> None]
  IN  IF dialect \in PostgresDialects
      THEN LET node == _extract_postgres_plan(explain_rows)
           IN  IF DOMAIN node = {} THEN empty
               ELSE LET total_cost == OptGet(node, "Total Cost")
                    IN  [estimate_ms |-> total_cost,
                         plan_rows |-> OptGet(node, "Plan Rows"),
                         total_cost |-> total_cost]
      ELSE empty

RECURSIVE NodeRisks(_)
\* the loop body of _detect_plan_risks over the walked nodes
NodeRisks(nodes) ==
  IF nodes = <<>> THEN <<>>
  ELSE LET node == Head(nodes)
           ntype == DictGet(node, "Node Type", "")
           prows == OptGet(node, "Plan Rows")
           rel   == DictGet(node, "Relation Name", <<>>)
           seq   == IF ntype = "Seq Scan"
                    THEN <<Msg("Sequential scan on {rel}.",
                               IF rel # <<>> THEN rel
                               ELSE <<"t","a","b","l","e">>)>>
                    ELSE <<>>
           loop  == IF ntype = "Nested Loop" /\ prows # None /\ prows[1] > 5000
                    THEN <<Msg("Large nested loop join detected.", <<>>)>>
                    ELSE <<>>
       IN  seq \o loop \o NodeRisks(Tail(nodes))

RECURSIVE SqliteRisks(_)
\* the loop of _detect_plan_risks over the rows of the flat-text dialect
SqliteRisks(rows) ==
  IF rows = <<>> THEN <<>>
  ELSE (IF Contains(Lower(DictGet(Head(rows), "detail", <<>>)), KwScan)
        THEN <<Msg("Full table scan detected.", <<>>)>> ELSE <<>>)
       \o SqliteRisks(Tail(rows))

_detect_plan_risks(dialect, explain_rows) ==
  (IF dialect \in PostgresDialects
   THEN NodeRisks(_walk_plan_nodes(_extract_postgres_plan(explain_rows)))
   ELSE <<>>)
  \o (IF dialect = "sqlite" THEN SqliteRisks(explain_rows) ELSE <<>>)

\* re.search(r"like\\s+'%.*%'", text): the doubled backslashes of the raw
\* string make the pattern: like, a backslash, one or more s, '%, any run of
\* characters without a newline, %'.
LikeWildcardMatch(text) ==
  \E i \in 1..Len(text) :
    /\ OccursAt(text, <<"l","i","k","e","\\">>, i)
    /\ \E j \in (i + 6)..Len(text) :
         /\ \A m \in (i + 5)..(j - 1) : text[m] = "s"
         /\ OccursAt(text, <<"'","%">>, j)
         /\ \E k \in (j + 2)..Len(text) :
              /\ OccursAt(text, <<"%","'">>, k)
              /\ \A m \in (j + 2)..(k - 1) : text[m] # "\n"

\* re.search(r"\\bselect\\s+\\*\\b", text): a backslash, bselect, a
\* backslash, one or more s, one or more backslashes, b.
SelectStarMatch(text) ==
  \E i \in 1..Len(text) :
    /\ OccursAt(text, <<"\\","b","s","e","l","e","c","t","\\">>, i)
    /\ \E j \in (i + 10)..Len(text) :
         /\ \A m \in (i + 9)..(j - 1) : text[m] = "s"
         /\ \E k \in j..(Len(text) - 1) :
              /\ \A m \in j..k : text[m] = "\\"
              /\ text[k + 1] = "b"

\* Variant: a total cost of exactly 10000 counts as high.
RiskRules_cost_inclusive(text, plan_meta) ==
  [r1 |-> ~Contains(Padded(text), KwWhereSp) /\ ~has_limit(text),
   r2 |-> Contains(Padded(text), KwJoinSp),
   r3 |-> LikeWildcardMatch(text),
   r4 |-> Contains(Padded(text), KwOrderBySp) /\ ~has_limit(text),
   r5 |-> SelectStarMatch(text),
   r6 |-> plan_meta.total_cost # None /\ plan_meta.total_cost[1] >= 10000,
   r7 |-> plan_meta.plan_risks # <<>>]

\* The rules of _assess_query_risk in their order, as the triggered ones.
RiskRules(text, plan_meta) ==
  [r1 |-> ~Contains(Padded(text), KwWhereSp) /\ ~has_limit(text),
   r2 |-> Contains(Padded(text), KwJoinSp),
   r3 |-> LikeWildcardMatch(text),
   r4 |-> Contains(Padded(text), KwOrderBySp) /\ ~has_limit(text),
   r5 |-> SelectStarMatch(text),
   r6 |-> plan_meta.total_cost # None /\ plan_meta.total_cost[1] > 10000,
   r7 |-> plan_meta.plan_risks # <<>>]

\* Variant: the sum of the weights is returned without the cap.
RiskScoreOf_uncapped(r) ==
  (IF r.r1 THEN 30 ELSE 0) + (IF r.r2 THEN 10 ELSE 0)
  + (IF r.r3 THEN 20 ELSE 0) + (IF r.r4 THEN 10 ELSE 0)
  + (IF r.r5 THEN 5 ELSE 0) + (IF r.r6 THEN 20 ELSE 0)
  + (IF r.r7 THEN 20 ELSE 0)

\* score += weight for each triggered rule, then min(score, 1.0)
RiskScoreOf(r) ==
  Min((IF r.r1 THEN 30 ELSE 0) + (IF r.r2 THEN 10 ELSE 0)
      + (IF r.r3 THEN 20 ELSE 0) + (IF r.r4 THEN 10 ELSE 0)
      + (IF r.r5 THEN 5 ELSE 0) + (IF r.r6 THEN 20 ELSE 0)
      + (IF r.r7 THEN 20 ELSE 0), 100)

\* risks.append(...) for each triggered rule, then the plan risks
RiskReasonsOf(r, plan_risks) ==
  (IF r.r1 THEN <<Msg("SELECT without WHERE or LIMIT.", <<>>)>> ELSE <<>>)
  \o (IF r.r2 THEN <<Msg("JOIN detected; ensure indexed join keys.", <<>>)>>
      ELSE <<>>)
  \o (IF r.r3 THEN <<Msg("Leading wildcard LIKE can be slow.", <<>>)>>
      ELSE <<>>)
  \o (IF r.r4 THEN <<Msg("ORDER BY without LIMIT can be expensive.", <<>>)>>
      ELSE <<>>)
  \o (IF r.r5 THEN <<Msg("SELECT * can fetch unnecessary columns.", <<>>)>>
      ELSE <<>>)
  \o (IF r.r6 THEN <<Msg("High planner cost detected.", <<>>)>> ELSE <<>>)
  \o plan_risks

AssessRules(r, plan_meta) ==
  [risk_score |-> RiskScoreOf(r),
   risky_reasons |-> RiskReasonsOf(r, plan_meta.plan_risks)]

_assess_query_risk(s, plan_meta) ==
  AssessRules(RiskRules(Lower(Strip(s)), plan_meta), plan_meta)

\* risk_level of build_query_plan
RiskLevel(score) ==
  IF score >= 70 THEN "high" ELSE IF score >= 40 THEN "medium" ELSE "low"

\* Variant: the note about the added LIMIT is written in every plan.
PlanNotes_always_added(limit_added, safeLimit, estimate_ms) ==
  <<Msg("Added LIMIT {safe_limit} for safety.", IntToStr(safeLimit))>>
  \o (IF estimate_ms # None
      THEN <<Msg("Runtime estimate is based on EXPLAIN cost (rough estimate).",
                 <<>>)>>
      ELSE <<Msg("Runtime estimate unavailable for this dialect.", <<>>)>>)

\* notes of build_query_plan
PlanNotes(limit_added, safeLimit, estimate_ms) ==
  (IF limit_added
   THEN <<Msg("Added LIMIT {safe_limit} for safety.", IntToStr(safeLimit))>>
   ELSE <<>>)
  \o (IF estimate_ms # None
      THEN <<Msg("Runtime estimate is based on EXPLAIN cost (rough estimate).",
                 <<>>)>>
      ELSE <<Msg("Runtime estimate unavailable for this dialect.", <<>>)>>)

\* plan_meta of build_query_plan: the estimate with the plan risks added
PlanMeta(estimate, plan_risks) ==
  [estimate_ms |-> estimate.estimate_ms, plan_rows |-> estimate.plan_rows,
   total_cost |-> estimate.total_cost, plan_risks |-> plan_risks]

\* the plan dict of build_query_plan from its parts
AssemblePlan(explain, plan_meta, risk, plan_json, lim, safeLimit) ==
  [explain |-> explain,
   estimate_ms |-> plan_meta.estimate_ms,
   plan_rows |-> plan_meta.plan_rows,
   total_cost |-> plan_meta.total_cost,
   risk_score |-> risk.risk_score,
   risk_level |-> RiskLevel(risk.risk_score),
   risky_reasons |-> risk.risky_reasons,
   plan_json |-> plan_json,
   safe_sql |-> lim.sql,
   notes |-> PlanNotes(lim.added, safeLimit, plan_meta.estimate_ms)]

PlanFromMeta(s, explain, plan_meta, safeLimit) ==
  AssemblePlan(explain, plan_meta, _assess_query_risk(s, plan_meta),
               _build_plan_json(s), apply_limit(s, safeLimit), safeLimit)

PlanFromExplain(s, explain, plan_rows, safeLimit) ==
  PlanFromMeta(s, explain,
               PlanMeta(_estimate_from_plan(explain.dialect, plan_rows),
                        _detect_plan_risks(explain.dialect, plan_rows)),
               safeLimit)

ExplainRows(explain) == DictGet(explain, "rows", <<>>)

PlanOfExplain(s, explain, safeLimit) ==
  PlanFromExplain(s, explain, ExplainRows(explain), safeLimit)

\* The plan build_query_plan returns when no call in it raises.
build_query_plan(s, adapter, safeLimit) ==
  PlanOfExplain(s, _run_explain(s, adapter), safeLimit)

\* build_query_plan ends by an exception: adapter.get_dialect() is called
\* outside the try of _run_explain, and _extract_limit raises on a match.
build_query_plan_raises(s, adapter) ==
  adapter.dialect_fails \/ _extract_limit(s).raised

\* -------------------------------------------------- use_cases/run_sql.py
\* Variant: a denied statement is stopped only when safety is off.
policy_blocks_inverted(sf, policy) == ~sf /\ ~policy.allowed

\* if safe and not policy["allowed"]
policy_blocks(sf, policy) == sf /\ ~policy.allowed

\* exec_sql = active_plan["safe_sql"] if safe else sql, limited in preview
select_exec_sql(s, sf, active_plan, md, previewLimit) ==
  LET exec_sql == IF sf THEN active_plan.safe_sql ELSE s
  IN  IF md = "preview" THEN apply_limit(exec_sql, previewLimit).sql
      ELSE exec_sql

\* One statement handed to adapter.query, with the place of the call.
QueryCall(site, s) == [site |-> site, sql |-> s]

NoPlan == <<>>

\* What a request leaves behind: its result, the statements it handed to
\* adapter.query, and the plan and policy it worked with.
Outcome(res, qs, active_plan, policy) ==
  [result |-> res, queries |-> qs, plan |-> active_plan, policy |-> policy]

\* RunSqlUseCase.execute from the policy decision on (lines 63-98)
RunDecided(sf, md, qf, active_plan, planq, policy, exec_sql) ==
  IF policy_blocks(sf, policy)
  THEN Outcome([error |-> Msg("Query blocked by safety policy.", <<>>),
                plan |-> active_plan, policy |-> policy],
               planq, active_plan, <<policy>>)
  ELSE IF md = "explain"
  THEN Outcome([plan |-> active_plan, policy |-> policy],
               planq, active_plan, <<policy>>)
  ELSE IF qf
  THEN Outcome([error |-> Msg("str(exc)", <<>>)],
               Append(planq, QueryCall("execute", exec_sql)),
               active_plan, <<policy>>)
  ELSE Outcome([executed_sql |-> exec_sql, plan |-> active_plan,
                policy |-> policy],
               Append(planq, QueryCall("execute", exec_sql)),
               active_plan, <<policy>>)

\* RunSqlUseCase.execute once the plan is known (lines 62-98)
RunPlanned(s, sf, md, previewLimit, qf, active_plan, planq) ==
  RunDecided(sf, md, qf, active_plan, planq,
             evaluate_policy(s, active_plan, TRUE),
             select_exec_sql(s, sf, active_plan, md, previewLimit))

\* The EXPLAIN statement build_query_plan handed to adapter.query
PlanningQueries(active_plan) ==
  <<QueryCall("explain", active_plan.explain.explain_sql)>>

\* RunSqlUseCase.execute building the plan itself (lines 54-60)
RunBuilding(s, sf, md, previewLimit, qf, active_plan) ==
  RunPlanned(s, sf, md, previewLimit, qf, active_plan,
             PlanningQueries(active_plan))

\* An exception leaving execute becomes the error result of the run_sql tool.
Raised == Outcome([error |-> Msg("str(exc)", <<>>)], <<>>, NoPlan, None)

Rejected(v) == Outcome([error |-> v.err], <<>>, NoPlan, None)

\* RunSqlUseCase.execute.  plan_arg is None or the plan the caller built.
run_sql_execute(s, sf, safeLimit, plan_arg, md, previewLimit, adapter, qf) ==
  IF ~validate_sql_select(s).ok THEN Rejected(validate_sql_select(s))
  ELSE IF plan_arg # None
  THEN RunPlanned(s, sf, md, previewLimit, qf, plan_arg[1], <<>>)
  ELSE IF build_query_plan_raises(s, adapter) THEN Raised
  ELSE RunBuilding(s, sf, md, previewLimit, qf,
                   build_query_plan(s, adapter, safeLimit))

\* ---------------------------------------------------------- run_sql_write.py
\* The plan RunSqlWriteUseCase.execute hands to evaluate_policy.
WritePolicyPlan == [risk_score |-> 0]

\* read_only = not allow_write; the variant hands allow_write over as it is.
write_read_only_not_negated(aw) == aw

write_read_only(aw) == ~aw

\* RunSqlWriteUseCase.execute from the policy decision on (lines 30-37): an
\* exception of execute_write leaves the use case and becomes the error
\* result of the tool.
WriteDecided(s, adapter, policy) ==
  IF ~policy.allowed
  THEN Outcome([error |-> Msg("Write blocked by safety policy.", <<>>),
                policy |-> policy],
               <<>>, NoPlan, <<policy>>)
  ELSE IF adapter.write_fails
  THEN Outcome([error |-> Msg("str(exc)", <<>>)],
               <<QueryCall("execute_write", s)>>, NoPlan, <<policy>>)
  ELSE Outcome([row_count |-> adapter.row_count, policy |-> policy],
               <<QueryCall("execute_write", s)>>, NoPlan, <<policy>>)

WriteValidated(s, aw, adapter, v) ==
  IF ~v.ok THEN Rejected(v)
  ELSE WriteDecided(s, adapter,
                    evaluate_policy(s, WritePolicyPlan, write_read_only(aw)))

run_sql_write_execute(s, aw, adapter) ==
  WriteValidated(s, aw, adapter, validate_sql_write(s))

\* ------------------------------------------------------------------ inputs
\* Input statements: a head followed by at most MaxFrags body fragments.
Heads ==
  { <<>>,
    <<"s","e","l","e","c","t">>,
    <<"W","I","T","H">>,
    <<"u","p","d","a","t","e">> }

BodyFrags ==
  { <<" ","j","o","i","n">>,
    <<" ","w","h","e","r","e">>,
    <<" ","L","I","M","I","T">>,
    <<" ">>,
    <<";">>,
    <<"9">> }

RECURSIVE Bodies(_)
Bodies(k) ==
  IF k = 0 THEN {<<>>}
  ELSE LET prev == Bodies(k - 1)
       IN  prev \cup {b \o f : b \in prev, f \in BodyFrags}

SqlInputs == {h \o b : h \in Heads, b \in Bodies(MaxFrags)}

\* Statements handed to the validators: a head in some letter case followed by
\* at most MaxFrags fragments, among them a DDL word and a write word.
ValidatorHeads ==
  { <<>>,
    <<"S","e","l","e","c","t">>,
    <<"w","i","t","h">>,
    <<"u","p","d","a","t","e">>,
    <<"D","E","L","E","T","E">> }

ValidatorFrags ==
  { <<" ","d","r","o","p">>,
    <<" ","U","p","d","a","t","e">>,
    <<" ">>,
    <<";">>,
    <<"x">> }

RECURSIVE ValidatorBodies(_)
ValidatorBodies(k) ==
  IF k = 0 THEN {<<>>}
  ELSE LET prev == ValidatorBodies(k - 1)
       IN  prev \cup {b \o f : b \in prev, f \in ValidatorFrags}

ValidatorInputs ==
  {h \o b : h \in ValidatorHeads, b \in ValidatorBodies(MaxFrags)}

\* Statements handed to the write tools: a head in some letter case followed
\* by at most MaxFrags fragments.
WriteHeads ==
  { <<>>,
    <<"s","e","l","e","c","t">>,
    <<"u","p","d","a","t","e">>,
    <<"I","N","S","E","R","T">>,
    <<" ","D","e","l","e","t","e">> }

WriteFrags ==
  { <<" ","j","o","i","n">>,
    <<" ","w","h","e","r","e">>,
    <<" ","l","i","m","i","t">>,
    <<" ","d","r","o","p">>,
    <<" ">>,
    <<";">>,
    <<"x">> }

RECURSIVE WriteBodies(_)
WriteBodies(k) ==
  IF k = 0 THEN {<<>>}
  ELSE LET prev == WriteBodies(k - 1)
       IN  prev \cup {b \o f : b \in prev, f \in WriteFrags}

WriteInputs == {h \o b : h \in WriteHeads, b \in WriteBodies(MaxFrags)}

\* What execute_write does: it returns the number of rows or raises.
WriteAdapters ==
  { [write_fails |-> FALSE, row_count |-> 0],
    [write_fails |-> FALSE, row_count |-> 2],
    [write_fails |-> TRUE, row_count |-> 0] }

\* Bounds handed to apply_limit by the callers of this model.
LimitArgs == {5, 12}

\* risk_score values of a plan, in hundredths, around the 0.7 threshold.
RiskScores == {69, 70}

\* Plans handed to evaluate_policy for statement s: safe_sql absent, empty,
\* the statement itself in another letter case and padding, or the statement
\* rewritten by apply_limit; risk_score absent or one of RiskScores.
SafeSqlChoices(s) ==
  { <<>>, <<" ">> \o s \o <<"\n">>, apply_limit(s, 5).sql }

PlanInputs(s) ==
  {<<>>}
    \cup {("safe_sql" :> x) : x \in SafeSqlChoices(s)}
    \cup {("risk_score" :> r) : r \in RiskScores}
    \cup {("safe_sql" :> x) @@ ("risk_score" :> r) :
            x \in SafeSqlChoices(s), r \in RiskScores}

\* What the adapter answers: a flat-text plan with a scan, a JSON plan with a
\* costly sequential scan under a nested loop, a failing EXPLAIN on another
\* dialect, and a failing dialect lookup.
PgNode ==
  ("Node Type" :> "Nested Loop") @@ ("Plan Rows" :> 6000)
    @@ ("Total Cost" :> 20000)
    @@ ("Plans" :> << ("Node Type" :> "Seq Scan")
                       @@ ("Relation Name" :> <<"t">>) >>)

AdapterBehaviours ==
  { [dialect |-> "sqlite", dialect_fails |-> FALSE, explain_fails |-> FALSE,
     rows |-> << [detail |-> <<"S","C","A","N"," ","t">>] >>],
    [dialect |-> "postgresql", dialect_fails |-> FALSE,
     explain_fails |-> FALSE,
     rows |-> << ("QUERY PLAN" :>
                    [kind |-> "list",
                     items |-> << [kind |-> "dict",
                                   fields |-> ("Plan" :> PgNode)] >>]) >>],
    [dialect |-> "mysql", dialect_fails |-> FALSE, explain_fails |-> TRUE,
     rows |-> <<>>],
    [dialect |-> "mysql", dialect_fails |-> TRUE, explain_fails |-> TRUE,
     rows |-> <<>>] }

\* Statements handed to build_query_plan: one choice for each clause, in the
\* order of a SELECT statement.  Each clause comes as ordinary SQL and, where
\* a pattern of sql_planning.py reads a backslash, as the text that pattern
\* matches.
SelectParts ==
  { <<>>,
    <<"s","e","l","e","c","t">>,
    <<"S","E","L","E","C","T"," ","*">>,
    <<"\\","b","s","e","l","e","c","t","\\","s","\\","b">> }

FromParts ==
  { <<>>,
    <<" ","f","r","o","m"," ","t">>,
    <<" ","f","r","o","m","\\","s","t">> }

JoinParts ==
  { <<>>,
    <<" ","j","o","i","n"," ","b">>,
    <<" ","j","o","i","n","\\","s","b">> }

WhereParts ==
  { <<>>,
    <<" ","w","h","e","r","e"," ","x">>,
    <<" ","w","h","e","r","e","\\","s","x">> }

LikeParts ==
  { <<>>,
    <<" ","l","i","k","e"," ","'","%","a","%","'">>,
    <<" ","l","i","k","e","\\","s","'","%","a","%","'">> }

OrderParts ==
  { <<>>,
    <<" ","o","r","d","e","r"," ","b","y"," ","c">> }

LimitParts ==
  { <<>>,
    <<" ","L","I","M","I","T"," ","9">>,
    <<"\\","b","l","i","m","i","t","\\","s","\\","d">> }

TailParts ==
  { <<>>,
    <<";">> }

PlanSqlInputs ==
  {s \o f \o j \o w \o k \o o \o l \o e :
     s \in SelectParts, f \in FromParts, j \in JoinParts, w \in WhereParts,
     k \in LikeParts, o \in OrderParts, l \in LimitParts, e \in TailParts}

\* Plan nodes of the JSON-plan dialect.
SeqScanNode ==
  ("Node Type" :> "Seq Scan") @@ ("Relation Name" :> <<"t">>)
    @@ ("Plan Rows" :> 10) @@ ("Total Cost" :> 10000)

HashNode ==
  ("Node Type" :> "Hash Join") @@ ("Plan Rows" :> 9000)
    @@ ("Total Cost" :> 10001)

\* The value of the QUERY PLAN column as the driver hands it over: a list
\* with one dict holding the plan, or the JSON text of that list.
PlanColumn(node) ==
  [kind |-> "list",
   items |-> << [kind |-> "dict", fields |-> ("Plan" :> node)] >>]

PlanColumnText(node) ==
  [kind |-> "str", json_ok |-> TRUE, parsed |-> PlanColumn(node)]

BrokenColumnText == [kind |-> "str", json_ok |-> FALSE]

ScanRow == [detail |-> <<"S","C","A","N"," ","t">>]

LowerScanRow == [detail |-> <<"s","c","a","n"," ","u">>]

SearchRow == [detail |-> <<"S","E","A","R","C","H"," ","t">>]

Answer(dialect, dialect_fails, explain_fails, rows) ==
  [dialect |-> dialect, dialect_fails |-> dialect_fails,
   explain_fails |-> explain_fails, rows |-> rows]

\* What the adapter answers during planning.  An adapter whose EXPLAIN fails
\* carries the rows the statement would have produced.
PlanAdapters ==
  { Answer("sqlite", FALSE, FALSE, <<ScanRow, SearchRow>>),
    Answer("sqlite", FALSE, FALSE, <<ScanRow, LowerScanRow>>),
    Answer("postgresql", FALSE, FALSE,
           << ("QUERY PLAN" :> PlanColumn(SeqScanNode)) >>),
    Answer("postgres", FALSE, FALSE,
           << ("query_plan" :> PlanColumnText(PgNode)) >>),
    Answer("postgresql", FALSE, FALSE,
           << ("QUERY PLAN" :> PlanColumn(HashNode)) >>),
    Answer("postgresql", FALSE, FALSE,
           << ("QUERY PLAN" :> BrokenColumnText) >>),
    Answer("postgresql", FALSE, FALSE, <<>>),
    Answer("mysql", FALSE, FALSE, <<ScanRow>>),
    Answer("postgresql", FALSE, TRUE,
           << ("QUERY PLAN" :> PlanColumn(PgNode)) >>),
    Answer("sqlite", FALSE, TRUE, <<ScanRow>>),
    Answer("mysql", TRUE, FALSE, <<>>) }

\* Plan trees of the JSON-plan dialect with at most MaxNodes nodes: every
\* shape, every node one of the kinds below.
NodeKinds ==
  { ("Node Type" :> "Seq Scan") @@ ("Relation Name" :> <<"t">>),
    ("Node Type" :> "Seq Scan"),
    ("Node Type" :> "Nested Loop") @@ ("Plan Rows" :> 5000),
    ("Node Type" :> "Nested Loop") @@ ("Plan Rows" :> 5001),
    ("Node Type" :> "Hash Join") @@ ("Plan Rows" :> 9000) }

RECURSIVE TreesOf(_), ForestsOf(_)
\* The trees with exactly n nodes
TreesOf(n) ==
  {IF f = <<>> THEN kind ELSE kind @@ ("Plans" :> f) :
     kind \in NodeKinds, f \in ForestsOf(n - 1)}

\* The lists of trees with m nodes in all
ForestsOf(m) ==
  IF m = 0 THEN {<<>>}
  ELSE UNION {{<<tr>> \o f : tr \in TreesOf(k), f \in ForestsOf(m - k)} :
                k \in 1..m}

PlanTrees == UNION {TreesOf(n) : n \in 1..MaxNodes}

\* The answers of a JSON-plan adapter whose EXPLAIN returns one of the trees.
WalkAnswers ==
  {Answer(d, FALSE, FALSE, << ("QUERY PLAN" :> PlanColumn(tr)) >>) :
     d \in PostgresDialects, tr \in PlanTrees}

\* plan_meta handed to _assess_query_risk: the total cost absent, at and above
\* 10000, and no, one or two plan risks.
TotalCosts == {None, <<10000>>, <<10001>>}

PlanRiskLists ==
  { <<>>,
    <<Msg("Sequential scan on {rel}.", <<"t">>)>>,
    <<Msg("Large nested loop join detected.", <<>>),
      Msg("Sequential scan on {rel}.", <<"t">>)>>,
    <<Msg("Full table scan detected.", <<>>),
      Msg("Full table scan detected.", <<>>)>> }

PlanMetaInputs ==
  {[estimate_ms |-> c, plan_rows |-> None, total_cost |-> c,
    plan_risks |-> rs] : c \in TotalCosts, rs \in PlanRiskLists}

\* Table names of the schemas.
TableA == <<"a">>

TableB == <<"b">>

TableC == <<"c">>

TableD == <<"d">>

\* A table no schema holds.
TableE == <<"e">>

ForeignKey(table, referred) ==
  ("table" :> table) @@ ("referred_table" :> referred)

\* The foreign keys a schema is made of: a cycle through four tables, a
\* diagonal, a key given in both directions, a self reference and an entry
\* without its referred table.
FkCandidates ==
  << ForeignKey(TableA, TableB), ForeignKey(TableC, TableB),
     ForeignKey(TableC, TableD), ForeignKey(TableD, TableA),
     ForeignKey(TableB, TableA), ForeignKey(TableA, TableC),
     ForeignKey(TableB, TableB), ("table" :> TableD) >>

\* The candidates at the positions of ks, in their order.
RECURSIVE FkList(_, _)
FkList(ks, i) ==
  IF i > Len(FkCandidates) THEN <<>>
  ELSE (IF i \in ks THEN <<FkCandidates[i]>> ELSE <<>>) \o FkList(ks, i + 1)

FkLists ==
  {FkList(ks, 1) : ks \in {x \in SUBSET DOMAIN FkCandidates :
                            Cardinality(x) <= MaxFks}}

\* Schemas as get_schema returns them; one has no foreign_keys entry.
Schemas ==
  {("foreign_keys" :> fks) : fks \in FkLists}
    \cup {("dialect" :> "sqlite")}

\* Graphs a caller builds itself: a one-way cycle, and neighbour lists that
\* are not sorted.
DirectedGraphs ==
  { (TableA :> <<TableB>>) @@ (TableB :> <<TableC>>) @@ (TableC :> <<TableA>>),
    (TableA :> <<TableD, TableC, TableB>>) @@ (TableB :> <<TableE>>)
      @@ (TableC :> <<TableE>>) @@ (TableD :> <<TableA>>) }

EndTables == {TableA, TableB, TableC, TableD, TableE}

\* Statements handed to _build_plan_json with a schema: a FROM clause and two
\* JOIN clauses, each as ordinary SQL or as the text the extractor patterns
\* match, with dotted names, a repeated table and a table outside the schema.
JoinFromParts ==
  { <<" ","f","r","o","m"," ","a">>,
    <<" ","f","r","o","m","\\","s","a">>,
    <<" ","F","R","O","M","\\","s","s",".","b">>,
    <<" ","f","r","o","m","\\","s","s","s"," ","c">> }

JoinClauseParts ==
  { <<>>,
    <<" ","j","o","i","n"," ","b">>,
    <<" ","j","o","i","n","\\","s","b">>,
    <<" ","j","o","i","n","\\","s","x",".","c">>,
    <<" ","J","O","I","N","\\","s","a"," ","o","n"," ","a",".","i","d">>,
    <<" ","j","o","i","n","\\","s","e">> }

JoinSqlInputs ==
  {<<"s","e","l","e","c","t"," ","x">> \o f \o j \o k :
     f \in JoinFromParts, j \in JoinClauseParts, k \in JoinClauseParts}

Modes == {"execute", "preview", "explain"}

\* safe_limit and preview_limit arguments of run_sql
SafeLimits == {5}

PreviewLimits == {3}

NoDecision == [allowed |-> FALSE, policy |-> "", reason |-> "",
               suggested_fix |-> ""]

NoLimited == [sql |-> <<>>, added |-> FALSE]

NoVerdict == [ok |-> FALSE, err |-> Msg("", <<>>)]

NoAdapter == <<>>

NoMeta == <<>>

NoSchema == <<>>

NoGraph == <<>>

NoEnds == <<>>

NoFacts == <<>>

NoOp == [kind |-> "none"]

NoTranslator == "none"

\* The variables of the later calls before any of them has run.
LateInit ==
  /\ schema = NoSchema
  /\ graph = NoGraph
  /\ ends = NoEnds
  /\ join_path = <<>>
  /\ facts = NoFacts
  /\ ttl_seconds = 0
  /\ store = EmptyDict
  /\ now = 0
  /\ written = EmptyDict
  /\ op = NoOp
  /\ reqs = <<>>
  /\ translator = NoTranslator
  /\ allow_write = FALSE

\* ------------------------------------------------------------- state machine
Init ==
  /\ sql \in SqlInputs
  /\ pc = "input"
  /\ read_only = TRUE
  /\ plan = <<>>
  /\ decision = NoDecision
  /\ limit = 0
  /\ limited = NoLimited
  /\ safe = TRUE
  /\ mode = "execute"
  /\ safe_limit = 0
  /\ preview_limit = 0
  /\ queries = <<>>
  /\ result = <<>>
  /\ relimited = NoLimited
  /\ valid = NoVerdict
  /\ db = NoAdapter
  /\ risks = <<>>
  /\ meta = NoMeta
  /\ LateInit

\* One call of evaluate_policy(sql, plan, read_only).
EvaluatePolicy ==
  /\ pc = "input"
  /\ \E p \in PlanInputs(sql), ro \in BOOLEAN :
       /\ plan' = p
       /\ read_only' = ro
       /\ decision' = evaluate_policy(sql, p, ro)
  /\ pc' = "policy"
  /\ UNCHANGED <<sql, limit, limited, relimited>>
  /\ UNCHANGED runVars
  /\ UNCHANGED coreVars
  /\ UNCHANGED lateVars

\* One call of apply_limit(sql, limit).
ApplyLimit ==
  /\ pc = "input"
  /\ \E n \in LimitArgs :
       /\ limit' = n
       /\ limited' = apply_limit(sql, n)
  /\ pc' = "limit"
  /\ UNCHANGED <<sql, read_only, plan, decision, relimited>>
  /\ UNCHANGED runVars
  /\ UNCHANGED coreVars
  /\ UNCHANGED lateVars

\* apply_limit called again on the statement a first call returned.
ApplyLimitAgain ==
  /\ pc = "limit"
  /\ \E n \in LimitArgs :
       /\ limit' = n
       /\ relimited' = apply_limit(limited.sql, n)
  /\ pc' = "relimit"
  /\ UNCHANGED <<sql, read_only, plan, decision, limited>>
  /\ UNCHANGED runVars
  /\ UNCHANGED coreVars
  /\ UNCHANGED lateVars

Next == EvaluatePolicy \/ ApplyLimit \/ ApplyLimitAgain

Spec == Init /\ [][Next]_vars

\* One run_sql request: RunSqlUseCase.execute on the statement, with the plan
\* built inside the call or handed in by the caller that built it (ask_db).
RunSql ==
  /\ pc = "input"
  /\ \E sf \in BOOLEAN, md \in Modes, sl \in SafeLimits,
        pl \in PreviewLimits, ad \in AdapterBehaviours,
        given \in BOOLEAN, qf \in BOOLEAN :
       /\ given => ~build_query_plan_raises(sql, ad)
       /\ \E out \in {run_sql_execute(sql, sf, sl,
                                       IF given
                                       THEN <<build_query_plan(sql, ad, sl)>>
                                       ELSE None,
                                       md, pl, ad, qf)} :
              /\ safe' = sf
              /\ mode' = md
              /\ safe_limit' = sl
              /\ preview_limit' = pl
              /\ queries' = out.queries
              /\ result' = out.result
              /\ plan' = out.plan
              /\ decision' = IF out.policy = None THEN NoDecision
                             ELSE out.policy[1]
  /\ pc' = "run"
  /\ read_only' = TRUE
  /\ UNCHANGED <<sql, limit, limited, relimited>>
  /\ UNCHANGED coreVars
  /\ UNCHANGED lateVars

NextRun == RunSql

\* The start of a planning call.
InitPlan ==
  /\ sql \in PlanSqlInputs
  /\ pc = "input"
  /\ read_only = TRUE
  /\ plan = <<>>
  /\ decision = NoDecision
  /\ limit = 0
  /\ limited = NoLimited
  /\ safe = TRUE
  /\ mode = "execute"
  /\ safe_limit = 0
  /\ preview_limit = 0
  /\ queries = <<>>
  /\ result = <<>>
  /\ relimited = NoLimited
  /\ valid = NoVerdict
  /\ db = NoAdapter
  /\ risks = <<>>
  /\ meta = NoMeta
  /\ LateInit

\* One call of build_query_plan(sql, adapter, safe_limit).  The EXPLAIN
\* statement reaches adapter.query once the dialect is known; the call ends
\* with the plan or by an exception.
BuildQueryPlan ==
  /\ pc = "input"
  /\ \E ad \in PlanAdapters, sl \in SafeLimits :
       /\ db' = ad
       /\ safe_limit' = sl
       /\ queries' = IF ad.dialect_fails THEN <<>>
                     ELSE <<QueryCall("explain",
                                      _build_explain_sql(sql, ad.dialect))>>
       /\ IF build_query_plan_raises(sql, ad)
          THEN plan' = NoPlan /\ result' = [raised |-> TRUE]
          ELSE /\ plan' = build_query_plan(sql, ad, sl)
               /\ result' = [raised |-> FALSE]
  /\ pc' = "planned"
  /\ UNCHANGED <<sql, read_only, decision, limit, limited, relimited>>
  /\ UNCHANGED <<safe, mode, preview_limit, valid, risks, meta>>
  /\ UNCHANGED lateVars

NextPlan == BuildQueryPlan

SpecPlan == InitPlan /\ [][NextPlan]_vars

\* The start of a call of _detect_plan_risks.
InitWalk ==
  /\ sql = <<>>
  /\ pc = "input"
  /\ read_only = TRUE
  /\ plan = <<>>
  /\ decision = NoDecision
  /\ limit = 0
  /\ limited = NoLimited
  /\ safe = TRUE
  /\ mode = "execute"
  /\ safe_limit = 0
  /\ preview_limit = 0
  /\ queries = <<>>
  /\ result = <<>>
  /\ relimited = NoLimited
  /\ valid = NoVerdict
  /\ db \in WalkAnswers
  /\ risks = <<>>
  /\ meta = NoMeta
  /\ LateInit

\* One call of _detect_plan_risks(dialect, explain_rows) on the rows the
\* adapter answered.
DetectPlanRisks ==
  /\ pc = "input"
  /\ risks' = _detect_plan_risks(db.dialect, db.rows)
  /\ pc' = "risks"
  /\ UNCHANGED <<sql, read_only, plan, decision, limit, limited, relimited>>
  /\ UNCHANGED runVars
  /\ UNCHANGED <<valid, db, meta>>
  /\ UNCHANGED lateVars

NextWalk == DetectPlanRisks

SpecWalk == InitWalk /\ [][NextWalk]_vars

\* One call of _assess_query_risk(sql, plan_meta).
AssessQueryRisk ==
  /\ pc = "input"
  /\ \E pm \in PlanMetaInputs :
       /\ meta' = pm
       /\ result' = _assess_query_risk(sql, pm)
  /\ pc' = "assessed"
  /\ UNCHANGED <<sql, read_only, plan, decision, limit, limited, relimited>>
  /\ UNCHANGED <<safe, mode, safe_limit, preview_limit, queries>>
  /\ UNCHANGED <<valid, db, risks>>
  /\ UNCHANGED lateVars

NextAssess == AssessQueryRisk

SpecAssess == InitPlan /\ [][NextAssess]_vars

\* The start of a validator call.
InitValidate ==
  /\ sql \in ValidatorInputs
  /\ pc = "input"
  /\ read_only = TRUE
  /\ plan = <<>>
  /\ decision = NoDecision
  /\ limit = 0
  /\ limited = NoLimited
  /\ safe = TRUE
  /\ mode = "execute"
  /\ safe_limit = 0
  /\ preview_limit = 0
  /\ queries = <<>>
  /\ result = <<>>
  /\ relimited = NoLimited
  /\ valid = NoVerdict
  /\ db = NoAdapter
  /\ risks = <<>>
  /\ meta = NoMeta
  /\ LateInit

\* One call of validate_sql_select(sql).
ValidateSelect ==
  /\ pc = "input"
  /\ valid' = validate_sql_select(sql)
  /\ pc' = "select_checked"
  /\ UNCHANGED <<sql, read_only, plan, decision, limit, limited, relimited>>
  /\ UNCHANGED runVars
  /\ UNCHANGED <<db, risks, meta>>
  /\ UNCHANGED lateVars

\* One call of validate_sql_write(sql).
ValidateWrite ==
  /\ pc = "input"
  /\ valid' = validate_sql_write(sql)
  /\ pc' = "write_checked"
  /\ UNCHANGED <<sql, read_only, plan, decision, limit, limited, relimited>>
  /\ UNCHANGED runVars
  /\ UNCHANGED <<db, risks, meta>>
  /\ UNCHANGED lateVars

NextValidate == ValidateSelect \/ ValidateWrite

SpecValidate == InitValidate /\ [][NextValidate]_vars

SpecRun == Init /\ [][NextRun]_vars

\* The variables of the earlier calls, which the later calls leave alone.
earlyVars ==
  <<read_only, plan, decision, limit, limited, relimited, runVars, coreVars>>

EarlyInit ==
  /\ read_only = TRUE
  /\ plan = <<>>
  /\ decision = NoDecision
  /\ limit = 0
  /\ limited = NoLimited
  /\ safe = TRUE
  /\ mode = "execute"
  /\ safe_limit = 0
  /\ preview_limit = 0
  /\ queries = <<>>
  /\ result = <<>>
  /\ relimited = NoLimited
  /\ valid = NoVerdict
  /\ db = NoAdapter
  /\ risks = <<>>
  /\ meta = NoMeta

CacheInit ==
  /\ ttl_seconds = 0
  /\ store = EmptyDict
  /\ now = 0
  /\ written = EmptyDict
  /\ op = NoOp
  /\ reqs = <<>>
  /\ translator = NoTranslator

\* The start of a write request.
InitWrite ==
  /\ sql \in WriteInputs
  /\ EarlyInit
  /\ LateInit
  /\ pc = "input"

\* One request of run_sql_write (allow_write = False) or of
\* run_sql_write_approved (allow_write = True): RunSqlWriteUseCase.execute.
RunSqlWrite ==
  /\ pc = "input"
  /\ \E aw \in BOOLEAN, ad \in WriteAdapters :
       \E out \in {run_sql_write_execute(sql, aw, ad)} :
         /\ allow_write' = aw
         /\ read_only' = write_read_only(aw)
         /\ db' = ad
         /\ valid' = validate_sql_write(sql)
         /\ queries' = out.queries
         /\ result' = out.result
         /\ decision' = IF out.policy = None THEN NoDecision
                        ELSE out.policy[1]
  /\ pc' = "write"
  /\ UNCHANGED <<sql, plan, limit, limited, relimited>>
  /\ UNCHANGED <<safe, mode, safe_limit, preview_limit, risks, meta>>
  /\ UNCHANGED <<joinVars, cacheVars>>

NextWrite == RunSqlWrite

SpecWrite == InitWrite /\ [][NextWrite]_vars

\* The start of a join-path search: a schema whose graph is still to be
\* built, or a graph of the caller's own.
InitPath ==
  /\ sql = <<>>
  /\ EarlyInit
  /\ CacheInit
  /\ allow_write = FALSE
  /\ ends = NoEnds
  /\ join_path = <<>>
  /\ facts = NoFacts
  /\ \/ schema \in Schemas /\ graph = NoGraph /\ pc = "input"
     \/ schema = NoSchema /\ graph \in DirectedGraphs /\ pc = "graph"

\* One call of _build_schema_graph(schema).
BuildSchemaGraph ==
  /\ pc = "input"
  /\ graph' = _build_schema_graph(schema)
  /\ pc' = "graph"
  /\ UNCHANGED <<sql, schema, ends, join_path, facts>>
  /\ UNCHANGED cacheVars
  /\ UNCHANGED writeVars
  /\ UNCHANGED earlyVars

\* One call of _find_join_path(graph, start, end).
FindJoinPath ==
  /\ pc = "graph"
  /\ \E start \in EndTables, end \in EndTables :
       /\ ends' = [start |-> start, end |-> end]
       /\ join_path' = _find_join_path(graph, start, end)
  /\ pc' = "path"
  /\ UNCHANGED <<sql, schema, graph, facts>>
  /\ UNCHANGED cacheVars
  /\ UNCHANGED writeVars
  /\ UNCHANGED earlyVars

NextPath == BuildSchemaGraph \/ FindJoinPath

\* The start of a call of _build_plan_json with the schema of the database,
\* or without one.
InitJoin ==
  /\ sql \in JoinSqlInputs
  /\ EarlyInit
  /\ CacheInit
  /\ allow_write = FALSE
  /\ schema \in Schemas \cup {NoSchema}
  /\ graph = NoGraph
  /\ ends = NoEnds
  /\ join_path = <<>>
  /\ facts = NoFacts
  /\ pc = "input"

\* One call of _build_plan_json(sql, schema=schema); it ends with the facts
\* unless _extract_limit raises.
BuildPlanJson ==
  /\ pc = "input"
  /\ ~_extract_limit(sql).raised
  /\ facts' = _build_plan_json_with_schema(sql, schema)
  /\ pc' = "facts"
  /\ UNCHANGED <<sql, schema, graph, ends, join_path>>
  /\ UNCHANGED cacheVars
  /\ UNCHANGED writeVars
  /\ UNCHANGED earlyVars

NextJoin == BuildPlanJson

SpecJoin == InitJoin /\ [][NextJoin]_vars

SpecPath == InitPath /\ [][NextPath]_vars

\* ------------------------------------------------- facts about the inputs
\* The conditions the claims speak of, stated on the call's arguments.
NormText == Lower(Strip(sql))

StartsAsRead == StartsWith(NormText, KwSelect) \/ StartsWith(NormText, KwWith)

WriteUnderReadOnly == read_only /\ ~StartsAsRead

SemicolonBeforeLast == \E i \in 1..(Len(NormText) - 1) : NormText[i] = ";"

JoinWords == Cardinality(WordPositions(NormText, KwJoin))

HasWhereWord == Contains(Padded(NormText), KwWhereSp)

HasLimitToken == WordPositions(NormText, KwLimit) # {}

NoWhereNoLimit == ~HasWhereWord /\ ~HasLimitToken

HighRisk == "risk_score" \in DOMAIN plan /\ plan["risk_score"] >= 70

SafeSqlDiffers ==
  /\ "safe_sql" \in DOMAIN plan
  /\ plan["safe_sql"] # <<>>
  /\ Lower(Strip(plan["safe_sql"])) # NormText

\* ------------------------------------------------------------------ claims
\* C1: the policy tag returned by evaluate_policy is that of the earliest rule
\* in the order READ_ONLY, SINGLE_STATEMENT, JOIN_COMPLEXITY,
\* UNBOUNDED_READ/SAFE_LIMIT_APPLIED, RISK_THRESHOLD, ALLOW whose condition
\* holds, also when conditions of later rules hold too.
C1_FirstMatch ==
  pc = "policy" =>
    IF WriteUnderReadOnly THEN decision.policy = "READ_ONLY"
    ELSE IF SemicolonBeforeLast THEN decision.policy = "SINGLE_STATEMENT"
    ELSE IF JoinWords >= 3 THEN decision.policy = "JOIN_COMPLEXITY"
    ELSE IF NoWhereNoLimit
         THEN decision.policy \in {"UNBOUNDED_READ", "SAFE_LIMIT_APPLIED"}
    ELSE IF HighRisk THEN decision.policy = "RISK_THRESHOLD"
    ELSE decision.policy = "ALLOW"

\* A write under read_only that also has a second statement, three joins, no
\* WHERE/LIMIT and a high risk score is decided by the first rule.
C1_Witness ==
  /\ pc = "policy"
  /\ WriteUnderReadOnly /\ JoinWords >= 3 /\ NoWhereNoLimit /\ HighRisk
  /\ decision.policy = "READ_ONLY"

\* C2: with read_only = TRUE every statement that does not start with select
\* or with is denied with policy READ_ONLY whatever the plan and the rest of
\* the statement; with read_only = FALSE READ_ONLY is never returned.
C2_ReadOnly ==
  pc = "policy" =>
    /\ WriteUnderReadOnly =>
         (decision.allowed = FALSE /\ decision.policy = "READ_ONLY")
    /\ ~read_only => decision.policy # "READ_ONLY"

C2_Witness ==
  /\ pc = "policy"
  /\ ~read_only /\ ~StartsAsRead /\ sql # <<>>
  /\ decision.policy # "READ_ONLY"

\* C3 (as stated): three or more join words always give allowed = FALSE with
\* policy JOIN_COMPLEXITY, for every plan and read_only.
C3_Original ==
  (pc = "policy" /\ JoinWords >= 3) =>
    (decision.allowed = FALSE /\ decision.policy = "JOIN_COMPLEXITY")

\* C3 (amended): three or more join words always give allowed = FALSE, and the
\* policy is JOIN_COMPLEXITY whenever neither READ_ONLY nor SINGLE_STATEMENT
\* matches, whatever the plan's risk score is.
C3_JoinComplexity ==
  (pc = "policy" /\ JoinWords >= 3) =>
    /\ decision.allowed = FALSE
    /\ (~WriteUnderReadOnly /\ ~SemicolonBeforeLast) =>
         decision.policy = "JOIN_COMPLEXITY"

C3_Witness ==
  /\ pc = "policy"
  /\ JoinWords >= 3 /\ ~WriteUnderReadOnly /\ ~SemicolonBeforeLast
  /\ "risk_score" \in DOMAIN plan /\ plan["risk_score"] = 70
  /\ decision.policy = "JOIN_COMPLEXITY"

\* C4: when the first three rules do not match and the statement has neither
\* a WHERE word nor a LIMIT token, the decision is allowed with
\* SAFE_LIMIT_APPLIED exactly when safe_sql is present, non-empty and differs
\* from the input after trimming and lowercasing, and denied with
\* UNBOUNDED_READ otherwise; both carry the same reason.
C4_UnboundedRead ==
  (/\ pc = "policy"
   /\ ~WriteUnderReadOnly /\ ~SemicolonBeforeLast /\ JoinWords < 3
   /\ NoWhereNoLimit) =>
    /\ decision.reason = "NO_WHERE_OR_LIMIT"
    /\ IF SafeSqlDiffers
       THEN decision.allowed = TRUE /\ decision.policy = "SAFE_LIMIT_APPLIED"
       ELSE decision.allowed = FALSE /\ decision.policy = "UNBOUNDED_READ"

\* safe_sql is the input in another letter case and padding: still unbounded.
C4_Witness ==
  /\ pc = "policy"
  /\ NoWhereNoLimit
  /\ "safe_sql" \in DOMAIN plan /\ plan["safe_sql"] # <<>>
  /\ plan["safe_sql"] # NormText /\ ~SafeSqlDiffers
  /\ decision.policy = "UNBOUNDED_READ"

\* C5: when none of the first four rules matches, the decision is a denial
\* with RISK_THRESHOLD exactly when risk_score >= 0.7 (missing counts as 0),
\* and otherwise allowed with ALLOW and empty reason and suggested_fix.
C5_RiskThreshold ==
  (/\ pc = "policy"
   /\ ~WriteUnderReadOnly /\ ~SemicolonBeforeLast /\ JoinWords < 3
   /\ ~NoWhereNoLimit) =>
    IF HighRisk
    THEN decision.allowed = FALSE /\ decision.policy = "RISK_THRESHOLD"
    ELSE /\ decision.allowed = TRUE /\ decision.policy = "ALLOW"
         /\ decision.reason = "" /\ decision.suggested_fix = ""

\* A plan whose risk_score is exactly 0.7 is denied.
C5_Witness ==
  /\ pc = "policy"
  /\ "risk_score" \in DOMAIN plan /\ plan["risk_score"] = 70
  /\ decision.policy = "RISK_THRESHOLD"

\* C6: every decision with allowed = FALSE carries a non-empty reason and a
\* non-empty suggested_fix.
C6_DenyHasRemedy ==
  (pc = "policy" /\ decision.allowed = FALSE) =>
    (decision.reason # "" /\ decision.suggested_fix # "")

C6_Witness ==
  /\ pc = "policy"
  /\ decision.allowed = FALSE
  /\ decision.policy \in {"RISK_THRESHOLD", "UNBOUNDED_READ"}
  /\ decision.suggested_fix # ""

\* C10: for a statement without LIMIT token apply_limit(sql, n) returns
\* added = TRUE and the input without trailing whitespace and without one
\* trailing semicolon, followed by " LIMIT n", followed by the semicolon when
\* one was removed; before that semicolon the result ends with the bound n.
C10_Expected ==
  LET trimmed == RStrip(sql)
      semi    == trimmed # <<>> /\ trimmed[Len(trimmed)] = ";"
      base    == IF semi THEN DropLast(trimmed) ELSE trimmed
  IN  base \o KwLimitUp \o IntToStr(limit) \o (IF semi THEN <<";">> ELSE <<>>)

C10_ApplyLimitAdds ==
  (pc = "limit" /\ WordPositions(Lower(sql), KwLimit) = {}) =>
    /\ limited.added = TRUE
    /\ limited.sql = C10_Expected
    /\ LET out == limited.sql
           body == IF out[Len(out)] = ";" THEN DropLast(out) ELSE out
       IN  EndsWith(body, <<" ">> \o IntToStr(limit))

\* A statement ending in a semicolon followed by whitespace gets its limit
\* before the restored semicolon.
C10_Witness ==
  /\ pc = "limit"
  /\ WordPositions(Lower(sql), KwLimit) = {}
  /\ EndsWith(sql, <<";", " ">>)
  /\ limited.added = TRUE
  /\ EndsWith(limited.sql, IntToStr(limit) \o <<";">>)

\* C11: apply_limit returns a statement that has a LIMIT word (in any letter
\* case) unchanged with added = FALSE, every statement it returns has a LIMIT
\* word, and a second call on its result, with any bound, returns that result
\* unchanged with added = FALSE.
C11_Idempotent ==
  /\ (pc \in {"limit", "relimit"} /\ WordPositions(Lower(sql), KwLimit) # {})
       => limited = [sql |-> sql, added |-> FALSE]
  /\ pc \in {"limit", "relimit"}
       => WordPositions(Lower(limited.sql), KwLimit) # {}
  /\ pc = "relimit" => relimited = [sql |-> limited.sql, added |-> FALSE]

\* The first call added a clause; the second, with another bound, added none.
C11_Witness ==
  /\ pc = "relimit"
  /\ limited.added = TRUE
  /\ ~Contains(limited.sql, <<" ">> \o IntToStr(limit))
  /\ relimited.sql = limited.sql /\ relimited.added = FALSE

\* ------------------------------------------------ facts about a planning
Planned == pc = "planned" /\ plan # NoPlan

AddedNotes ==
  {i \in DOMAIN plan.notes :
     plan.notes[i].fmt = "Added LIMIT {safe_limit} for safety."}

\* C12: in every plan build_query_plan returns, safe_sql is the input itself
\* and no "Added LIMIT" note is written when the input has a LIMIT word, and
\* otherwise safe_sql is the input (less trailing whitespace and one trailing
\* semicolon) followed by one " LIMIT safe_limit" and the semicolon again,
\* holds exactly one LIMIT word, and the note "Added LIMIT safe_limit" is
\* written once.
C12_Expected ==
  LET trimmed == RStrip(sql)
      semi    == trimmed # <<>> /\ trimmed[Len(trimmed)] = ";"
      base    == IF semi THEN DropLast(trimmed) ELSE trimmed
  IN  base \o KwLimitUp \o IntToStr(safe_limit)
           \o (IF semi THEN <<";">> ELSE <<>>)

C12_SafeSql ==
  Planned =>
    IF WordPositions(Lower(sql), KwLimit) # {}
    THEN plan.safe_sql = sql /\ AddedNotes = {}
    ELSE /\ plan.safe_sql = C12_Expected
         /\ Cardinality(WordPositions(Lower(plan.safe_sql), KwLimit)) = 1
         /\ Cardinality(AddedNotes) = 1
         /\ \A i \in AddedNotes : plan.notes[i].arg = IntToStr(safe_limit)

\* A statement ending in a semicolon got its clause before the semicolon.
C12_Witness ==
  /\ Planned
  /\ WordPositions(Lower(sql), KwLimit) = {}
  /\ EndsWith(sql, <<"c", ";">>)
  /\ EndsWith(plan.safe_sql, <<" ","L","I","M","I","T"," ","5",";">>)
  /\ AddedNotes # {}

\* The reasons the scorer derives from the statement text and from the cost.
TextReasonFmts ==
  { "SELECT without WHERE or LIMIT.",
    "JOIN detected; ensure indexed join keys.",
    "Leading wildcard LIKE can be slow.",
    "ORDER BY without LIMIT can be expensive.",
    "SELECT * can fetch unnecessary columns." }

PlanRiskFmts ==
  { "Sequential scan on {rel}.", "Large nested loop join detected.",
    "Full table scan detected." }

ReasonFmts == {plan.risky_reasons[i].fmt : i \in DOMAIN plan.risky_reasons}

\* C15: when adapter.query fails on the EXPLAIN statement, build_query_plan
\* still returns a plan: its explain carries an error and no rows, its
\* estimate_ms, plan_rows and total_cost are absent, no reason comes from a
\* plan or a cost, and the statement still gets its safe_sql and plan_json.
C15_ExplainFailureCaptured ==
  (pc = "planned" /\ ~db.dialect_fails /\ db.explain_fails) =>
    /\ result.raised = FALSE
    /\ plan # NoPlan
    /\ "error" \in DOMAIN plan.explain
    /\ "rows" \notin DOMAIN plan.explain
    /\ plan.estimate_ms = None /\ plan.plan_rows = None
    /\ plan.total_cost = None
    /\ ReasonFmts \subseteq TextReasonFmts
    /\ plan.safe_sql # <<>>
    /\ plan.plan_json.confidence >= 60

\* C16: build_query_plan never ends by an exception: for every statement and
\* every answer of the adapter (a failing dialect lookup and a failing or
\* oddly shaped EXPLAIN included) it returns a plan with all its parts.
C16_NeverRaises ==
  pc = "planned" =>
    /\ result.raised = FALSE
    /\ plan # NoPlan
    /\ plan.risk_level \in {"low", "medium", "high"}
    /\ plan.safe_sql # <<>>

\* C17: in every plan build_query_plan returns, risk_score and
\* plan_json.confidence lie between 0 and 1 (0 and 100 hundredths).
C17_ScoresInUnitInterval ==
  Planned =>
    /\ plan.risk_score >= 0 /\ plan.risk_score <= 100
    /\ plan.plan_json.confidence >= 0 /\ plan.plan_json.confidence <= 100

\* All four text reasons with a cost and a plan reason: the weights add up to
\* more than 1 and the score is 1; every extractor found something.
C17_Witness ==
  /\ Planned
  /\ plan.risk_score = 100
  /\ Len(plan.risky_reasons) >= 6
  /\ plan.plan_json.confidence = 100

\* ----------------------------------------------- facts about an assessment
PatternReasonFmts ==
  { "Leading wildcard LIKE can be slow.",
    "SELECT * can fetch unnecessary columns." }

NotPatternReason(m) == m.fmt \notin PatternReasonFmts

Listed(fmt) ==
  \E i \in DOMAIN result.risky_reasons : result.risky_reasons[i].fmt = fmt

OrderByUnlimited ==
  Contains(Padded(NormText), KwOrderBySp) /\ ~HasLimitToken

JoinWord == Contains(Padded(NormText), KwJoinSp)

HighCost == meta.total_cost # None /\ meta.total_cost[1] > 10000

\* C18: _assess_query_risk lists the reasons of the rules no WHERE and no
\* LIMIT (+0.3), JOIN (+0.1), ORDER BY without LIMIT (+0.1) and total cost
\* above 10000 (+0.2) in this order, then every plan risk as it stands and in
\* plan order; plan risks add 0.2 once however many they are; the score is the
\* sum of the triggered weights, the two pattern rules included where they
\* are listed, capped at 1.
C18_Expected ==
  (IF NoWhereNoLimit
   THEN <<Msg("SELECT without WHERE or LIMIT.", <<>>)>> ELSE <<>>)
  \o (IF JoinWord
      THEN <<Msg("JOIN detected; ensure indexed join keys.", <<>>)>>
      ELSE <<>>)
  \o (IF OrderByUnlimited
      THEN <<Msg("ORDER BY without LIMIT can be expensive.", <<>>)>>
      ELSE <<>>)
  \o (IF HighCost THEN <<Msg("High planner cost detected.", <<>>)>>
      ELSE <<>>)
  \o meta.plan_risks

C18_ExpectedScore ==
  (IF NoWhereNoLimit THEN 30 ELSE 0) + (IF JoinWord THEN 10 ELSE 0)
  + (IF OrderByUnlimited THEN 10 ELSE 0) + (IF HighCost THEN 20 ELSE 0)
  + (IF meta.plan_risks # <<>> THEN 20 ELSE 0)
  + (IF Listed("Leading wildcard LIKE can be slow.") THEN 20 ELSE 0)
  + (IF Listed("SELECT * can fetch unnecessary columns.") THEN 5 ELSE 0)

C18_RuleOrder ==
  pc = "assessed" =>
    /\ SelectSeq(result.risky_reasons, NotPatternReason) = C18_Expected
    /\ result.risk_score =
         (IF C18_ExpectedScore > 100 THEN 100 ELSE C18_ExpectedScore)

\* The first, second and fourth rule with a cost of exactly 10000 and two
\* plan risks: 0.3 + 0.1 + 0.1 + 0.2.
C18_Witness ==
  /\ pc = "assessed"
  /\ NoWhereNoLimit /\ JoinWord /\ OrderByUnlimited
  /\ meta.total_cost = <<10000>>
  /\ Len(meta.plan_risks) = 2
  /\ Len(result.risky_reasons) = 5
  /\ result.risk_score = 70

\* C19: a statement that contains SELECT * gets the reason about unnecessary
\* columns and 0.05, and a statement that contains LIKE '%...%' gets the
\* reason about the leading wildcard and 0.2.
C19_TextPatternsFire ==
  pc = "assessed" =>
    /\ Contains(NormText, <<"s","e","l","e","c","t"," ","*">>)
         => /\ Listed("SELECT * can fetch unnecessary columns.")
            /\ result.risk_score >= 5
    /\ Contains(NormText, <<"l","i","k","e"," ","'","%","a","%","'">>)
         => /\ Listed("Leading wildcard LIKE can be slow.")
            /\ result.risk_score >= 20

\* ------------------------------------------------- facts about a plan tree
\* The plan tree inside the rows the adapter answered.
TreeOf(rows) == rows[1]["QUERY PLAN"].items[1].fields["Plan"]

\* Places in a tree: the child indexes on the way down from the root.
AllPaths == UNION {[1..k -> 1..MaxNodes] : k \in 0..(MaxNodes - 1)}

RECURSIVE NodeAt(_, _)
\* The node at a place, or the empty dict where the tree has none.
NodeAt(tree, path) ==
  IF path = <<>> THEN tree
  ELSE IF "Plans" \in DOMAIN tree /\ Head(path) \in DOMAIN tree["Plans"]
  THEN NodeAt(tree["Plans"][Head(path)], Tail(path))
  ELSE <<>>

NodePaths(tree) == {p \in AllPaths : NodeAt(tree, p) # <<>>}

IsSeqScan(node) == node["Node Type"] = "Seq Scan"

IsLargeLoop(node) ==
  /\ node["Node Type"] = "Nested Loop"
  /\ "Plan Rows" \in DOMAIN node
  /\ node["Plan Rows"] > 5000

RiskyPaths(tree) ==
  {p \in NodePaths(tree) :
     IsSeqScan(NodeAt(tree, p)) \/ IsLargeLoop(NodeAt(tree, p))}

\* p comes before q when a node is visited before its child plans and these
\* in their order.
PathBefore(p, q) ==
  \/ Len(p) < Len(q) /\ SubSeq(q, 1, Len(p)) = p
  \/ \E i \in 1..Len(p) :
       /\ i <= Len(q)
       /\ SubSeq(p, 1, i - 1) = SubSeq(q, 1, i - 1)
       /\ p[i] < q[i]

\* C20: on a JSON plan _detect_plan_risks returns one risk for each Seq Scan
\* node, naming its relation, and one for each Nested Loop node whose Plan
\* Rows is above 5000, for the nodes of every depth, in the order of a walk
\* that visits a node and then its child plans in order; it returns nothing
\* else.
C20_WalkRisks ==
  pc = "risks" =>
    LET tree  == TreeOf(db.rows)
        risky == RiskyPaths(tree)
        rank(p) == Cardinality({q \in risky : PathBefore(q, p)}) + 1
    IN  /\ Len(risks) = Cardinality(risky)
        /\ \A p \in risky :
             IF IsSeqScan(NodeAt(tree, p))
             THEN /\ risks[rank(p)].fmt = "Sequential scan on {rel}."
                  /\ "Relation Name" \in DOMAIN NodeAt(tree, p)
                       => risks[rank(p)].arg = NodeAt(tree, p)["Relation Name"]
             ELSE risks[rank(p)].fmt = "Large nested loop join detected."

\* A sequential scan two levels below a large nested loop at the root and
\* after a nested loop of exactly 5000 rows: two risks.
C20_Witness ==
  /\ pc = "risks"
  /\ IsLargeLoop(TreeOf(db.rows))
  /\ NodeAt(TreeOf(db.rows), <<1>>) # <<>>
  /\ ~IsLargeLoop(NodeAt(TreeOf(db.rows), <<1>>))
  /\ ~IsSeqScan(NodeAt(TreeOf(db.rows), <<1>>))
  /\ NodeAt(TreeOf(db.rows), <<1, 1>>) # <<>>
  /\ IsSeqScan(NodeAt(TreeOf(db.rows), <<1, 1>>))
  /\ Len(risks) = 2
  /\ risks[2].fmt = "Sequential scan on {rel}."

\* The word w stands in the trimmed lowercased statement between spaces or
\* the ends of the text.
SpaceWordAt(text, w, i) ==
  /\ OccursAt(text, w, i)
  /\ (i = 1 \/ text[i - 1] = " ")
  /\ (i + Len(w) - 1 = Len(text) \/ text[i + Len(w)] = " ")

SpaceWordIn(text, w) == \E i \in 1..Len(text) : SpaceWordAt(text, w, i)

HasSpaceWord(w) == SpaceWordIn(NormText, w)

DdlWords ==
  { <<"d","r","o","p">>, <<"a","l","t","e","r">>,
    <<"t","r","u","n","c","a","t","e">>, <<"c","r","e","a","t","e">>,
    <<"g","r","a","n","t">>, <<"r","e","v","o","k","e">>,
    <<"c","o","p","y">> }

WriteWords ==
  { <<"i","n","s","e","r","t">>, <<"u","p","d","a","t","e">>,
    <<"d","e","l","e","t","e">> }

\* C13: validate_sql_select returns (TRUE, "") exactly when the trimmed
\* lowercased statement is non-empty, starts with select or with, has no
\* semicolon before its final character and has no write or DDL keyword as a
\* space-delimited word; otherwise it returns FALSE with the message of the
\* first failing check in the order empty, not a select, multiple statements,
\* blocked keyword (naming a blocked word of the statement).
C13_ValidateSelect ==
  pc = "select_checked" =>
    IF NormText = <<>>
    THEN valid = [ok |-> FALSE, err |-> Msg("SQL is empty.", <<>>)]
    ELSE IF ~StartsAsRead
    THEN valid = [ok |-> FALSE,
                  err |-> Msg("Only SELECT queries are allowed.", <<>>)]
    ELSE IF SemicolonBeforeLast
    THEN valid = [ok |-> FALSE,
                  err |-> Msg("Multiple statements are not allowed.", <<>>)]
    ELSE IF \E w \in DdlWords \cup WriteWords : HasSpaceWord(w)
    THEN /\ valid.ok = FALSE
         /\ valid.err.fmt = "Blocked keyword: {word}."
         /\ valid.err.arg \in DdlWords \cup WriteWords
         /\ HasSpaceWord(valid.err.arg)
    ELSE valid = [ok |-> TRUE, err |-> Msg("", <<>>)]

\* A select that ends in a semicolon and holds a blocked word only as part of
\* a longer word is accepted.
C13_Witness ==
  /\ pc = "select_checked"
  /\ valid.ok = TRUE
  /\ NormText[Len(NormText)] = ";"
  /\ Contains(NormText, <<"d","r","o","p">>)

\* C14: validate_sql_write accepts a statement only if its trimmed lowercased
\* text starts with insert, update or delete, has no semicolon before its
\* final character and has none of the DDL keywords as a space-delimited
\* word; a statement meeting these conditions is accepted also when it holds
\* insert, update or delete as a space-delimited word, and no rejection names
\* one of these three.
C14_ValidateWrite ==
  pc = "write_checked" =>
    LET meets == /\ StartsAsWrite(NormText)
                 /\ ~SemicolonBeforeLast
                 /\ ~\E w \in DdlWords : HasSpaceWord(w)
    IN  /\ valid.ok = meets
        /\ valid.err.arg \notin WriteWords

\* An accepted update that holds the word update again further on.
C14_Witness ==
  /\ pc = "write_checked"
  /\ valid.ok = TRUE
  /\ \E i \in 2..Len(NormText) :
       SpaceWordAt(NormText, <<"u","p","d","a","t","e">>, i)

\* -------------------------------------------------- facts about a run_sql
\* validate_sql_select rejects the statement, or evaluate_policy denies it
\* for the plan of the request.
RunBlocked ==
  \/ ~validate_sql_select(sql).ok
  \/ (plan # NoPlan /\ ~evaluate_policy(sql, plan, TRUE).allowed)

\* Statements handed to adapter.query for their rows (run_sql.py line 77).
ExecutedSqls ==
  {queries[i].sql : i \in {j \in DOMAIN queries : queries[j].site = "execute"}}

\* The statement or its safe rewrite reached adapter.query as it is.
HandedOver ==
  \E i \in DOMAIN queries :
    \/ queries[i].sql = sql
    \/ (plan # NoPlan /\ queries[i].sql = plan.safe_sql)

RECURSIVE DigitsValue(_)
\* The number written by a sequence of decimal digits.
DigitsValue(ds) ==
  IF ds = <<>> THEN 0
  ELSE 10 * DigitsValue(DropLast(ds))
       + (CHOOSE d \in 0..9 : DigitChars[d + 1] = ds[Len(ds)])

\* The bounds n of the clauses "LIMIT n" in a statement: a LIMIT word, then
\* whitespace, then a run of digits that ends the number.
LimitClauseBounds(stmt) ==
  {DigitsValue(SubSeq(stmt, a, b)) :
     <<a, b>> \in
       {ab \in (1..Len(stmt)) \X (1..Len(stmt)) :
          /\ ab[1] <= ab[2]
          /\ \A m \in ab[1]..ab[2] : stmt[m] \in Range(DigitChars)
          /\ (ab[2] = Len(stmt) \/ stmt[ab[2] + 1] \notin Range(DigitChars))
          /\ \E i \in WordPositions(Lower(stmt), KwLimit) :
               /\ i + 5 < ab[1]
               /\ \A m \in (i + 5)..(ab[1] - 1) : IsSpace(stmt[m])}}

QueryCache_get_expires_at_ttl(st, key, t, ttl) ==
  IF key \notin DOMAIN st THEN [value |-> None, store |-> st]
  ELSE IF t - st[key].ts >= ttl
  THEN [value |-> None,
        store |-> [k \in DOMAIN st \ {key} |-> st[k]]]
  ELSE [value |-> <<st[key].value>>, store |-> st]

QueryCache_get(st, key, t, ttl) ==
  IF key \notin DOMAIN st THEN [value |-> None, store |-> st]
  ELSE IF t - st[key].ts > ttl
  THEN [value |-> None,
        store |-> [k \in DOMAIN st \ {key} |-> st[k]]]
  ELSE [value |-> <<st[key].value>>, store |-> st]

\* QueryCache.set(key, value) at clock reading t
QueryCache_set(st, key, value, t) ==
  [k \in DOMAIN st \cup {key} |->
     IF k = key THEN [value |-> value, ts |-> t] ELSE st[k]]

\* Cache keys and cached values.
CacheKeys == {"k1", "k2"}

CacheValues == {"select 1", "select 2"}

TtlChoices == {1, 2}

\* QueryCache(ttl_seconds) just constructed.
InitCache ==
  /\ sql = <<>>
  /\ EarlyInit
  /\ schema = NoSchema
  /\ graph = NoGraph
  /\ ends = NoEnds
  /\ join_path = <<>>
  /\ facts = NoFacts
  /\ ttl_seconds \in TtlChoices
  /\ store = EmptyDict
  /\ now = 0
  /\ written = EmptyDict
  /\ op = NoOp
  /\ reqs = <<>>
  /\ translator = NoTranslator
  /\ allow_write = FALSE
  /\ pc = "cache"

\* One call of set(key, value).
CacheSet ==
  /\ \E key \in CacheKeys, value \in CacheValues :
       /\ store' = QueryCache_set(store, key, value, now)
       /\ written' = QueryCache_set(written, key, value, now)
       /\ op' = [kind |-> "set", key |-> key, value |-> <<value>>]
  /\ UNCHANGED <<ttl_seconds, now, reqs, translator, sql, pc>>
  /\ UNCHANGED joinVars
  /\ UNCHANGED writeVars
  /\ UNCHANGED earlyVars

\* One call of get(key).
CacheGet ==
  /\ \E key \in CacheKeys :
       \E out \in {QueryCache_get(store, key, now, ttl_seconds)} :
         /\ store' = out.store
         /\ op' = [kind |-> "get", key |-> key, value |-> out.value]
  /\ UNCHANGED <<ttl_seconds, now, written, reqs, translator, sql, pc>>
  /\ UNCHANGED joinVars
  /\ UNCHANGED writeVars
  /\ UNCHANGED earlyVars

\* The clock moves on between two calls.
Tick ==
  /\ now < MaxTime
  /\ now' = now + 1
  /\ op' = [kind |-> "tick"]
  /\ UNCHANGED <<ttl_seconds, store, written, reqs, translator, sql, pc>>
  /\ UNCHANGED joinVars
  /\ UNCHANGED writeVars
  /\ UNCHANGED earlyVars

NextCache == CacheSet \/ CacheGet \/ Tick

SpecCache == InitCache /\ [][NextCache]_vars

\* Time since the last set of key k.
Elapsed(k) == now - written[k].ts

\* C24: get(key) returns the value set last while the time since that set is
\* at most ttl_seconds and None once it is greater; an entry get finds
\* expired is removed, so the key stays without a value until it is set again.
C24_CacheTtl ==
  op.kind = "get" =>
    /\ (op.key \in DOMAIN written /\ Elapsed(op.key) <= ttl_seconds) =>
         op.value = <<written[op.key].value>>
    /\ (op.key \in DOMAIN written /\ Elapsed(op.key) > ttl_seconds) =>
         op.value = None /\ op.key \notin DOMAIN store
    /\ op.key \notin DOMAIN written => op.value = None

\* A get exactly ttl_seconds after the set, which still returns the value.
C24_Witness ==
  /\ op.kind = "get"
  /\ op.key \in DOMAIN written
  /\ Elapsed(op.key) = ttl_seconds
  /\ op.value = <<written[op.key].value>>

\* ------------------------------------------------------------- join paths
Adjacent(g, x, y) == \E i \in DOMAIN Neighbors(g, x) : Neighbors(g, x)[i] = y

GraphNodes(g) == DOMAIN g \cup UNION {Range(g[n]) : n \in DOMAIN g}

\* The nodes k edges or fewer away from x.
NextTo(g, S) == S \cup {y \in GraphNodes(g) : \E n \in S : Adjacent(g, n, y)}

RECURSIVE Within(_, _, _)
Within(g, x, k) ==
  IF k = 0 THEN {x} ELSE NextTo(g, Within(g, x, k - 1))

Reachable(g, x, y) == y \in Within(g, x, Cardinality(GraphNodes(g)))

\* The least number of edges of a way from x to a node y it reaches.
Distance(g, x, y) ==
  CHOOSE k \in 0..Cardinality(GraphNodes(g)) :
    /\ y \in Within(g, x, k)
    /\ \A m \in 0..(k - 1) : y \notin Within(g, x, m)

IsWay(g, way, x, y) ==
  /\ way # <<>>
  /\ way[1] = x
  /\ way[Len(way)] = y
  /\ \A i \in 1..(Len(way) - 1) : Adjacent(g, way[i], way[i + 1])
  /\ \A i, j \in DOMAIN way : i # j => way[i] # way[j]

\* C21: _find_join_path returns [start] for equal end points, a shortest way
\* without repeated tables from start to end when end can be reached, and the
\* empty sequence when it cannot; the search ends on graphs with cycles too.
C21_ShortestPath ==
  pc = "path" =>
    IF ends.start = ends.end THEN join_path = <<ends.start>>
    ELSE IF Reachable(graph, ends.start, ends.end)
    THEN /\ IsWay(graph, join_path, ends.start, ends.end)
         /\ Len(join_path) - 1 = Distance(graph, ends.start, ends.end)
    ELSE join_path = <<>>

\* A search on a graph with a cycle where two ways of two edges lead to the
\* end and the end is not a neighbour of the start.
C21_Witness ==
  /\ pc = "path"
  /\ Len(join_path) = 3
  /\ \E m \in GraphNodes(graph) :
       /\ m # join_path[2]
       /\ Adjacent(graph, ends.start, m)
       /\ Adjacent(graph, m, ends.end)
  /\ Adjacent(graph, ends.end, ends.start) = FALSE
  /\ Reachable(graph, ends.end, ends.start)

\* The foreign keys of the schema that name both tables.
SchemaKeys ==
  {k \in Range(DictGet(schema, "foreign_keys", <<>>)) :
     "table" \in DOMAIN k /\ "referred_table" \in DOMAIN k}

\* x and y are the two tables of a foreign key, in either direction.
Linked(x, y) ==
  \E k \in SchemaKeys :
    \/ k["table"] = x /\ k["referred_table"] = y
    \/ k["table"] = y /\ k["referred_table"] = x

\* The tables joined to x by k foreign keys or fewer.
LinkedTo(S) == S \cup {y \in EndTables : \E n \in S : Linked(n, y)}

RECURSIVE LinkedWithin(_, _)
LinkedWithin(x, k) ==
  IF k = 0 THEN {x} ELSE LinkedTo(LinkedWithin(x, k - 1))

Connected(x, y) == y \in LinkedWithin(x, Cardinality(EndTables))

\* Position of a table in the extracted list.
TableIndex(x) == CHOOSE i \in DOMAIN facts.tables : facts.tables[i] = x

EntryBefore(e, f) ==
  \/ TableIndex(e.from) < TableIndex(f.from)
  \/ TableIndex(e.from) = TableIndex(f.from) /\ TableIndex(e.to) < TableIndex(f.to)

\* C22: with a schema, join_paths holds one entry for each pair of extracted
\* tables (i < j) joined through foreign keys read in both directions, in the
\* order of extraction, and no entry for any other pair.
C22_JoinPaths ==
  (pc = "facts" /\ schema # NoSchema) =>
    /\ \A k \in DOMAIN facts.join_paths :
         /\ facts.join_paths[k].from \in Range(facts.tables)
         /\ facts.join_paths[k].to \in Range(facts.tables)
         /\ TableIndex(facts.join_paths[k].from) < TableIndex(facts.join_paths[k].to)
         /\ Connected(facts.join_paths[k].from, facts.join_paths[k].to)
         /\ facts.join_paths[k].path # <<>>
    /\ \A i, j \in DOMAIN facts.tables :
         (i < j /\ Connected(facts.tables[i], facts.tables[j])) =>
           Cardinality({k \in DOMAIN facts.join_paths :
                          /\ facts.join_paths[k].from = facts.tables[i]
                          /\ facts.join_paths[k].to = facts.tables[j]}) = 1
    /\ \A k, l \in DOMAIN facts.join_paths :
         k < l => EntryBefore(facts.join_paths[k], facts.join_paths[l])

\* Three extracted tables, two pairs joined (one through a third table) and
\* one pair not joined.
C22_Witness ==
  /\ pc = "facts"
  /\ schema # NoSchema
  /\ Len(facts.tables) = 3
  /\ Len(facts.join_paths) = 1
  /\ Len(facts.join_paths[1].path) = 3

\* Names after kw and white space in ordinary SQL: the groups of
\* kw\s+([a-z0-9_.]+) from left to right.
IdentClass == Range(LowerChars) \cup Range(DigitChars) \cup {"_", "."}

WhiteSpace == {" ", "\t", "\n", "\r", "\f"}

RECURSIVE StatedNamesFrom(_, _, _)
StatedNamesFrom(text, kw, i) ==
  IF i > Len(text) THEN <<>>
  ELSE IF /\ OccursAt(text, kw, i)
          /\ RunEnd(text, WhiteSpace, i + Len(kw)) >= i + Len(kw)
          /\ RunEnd(text, IdentClass,
                    RunEnd(text, WhiteSpace, i + Len(kw)) + 1)
               > RunEnd(text, WhiteSpace, i + Len(kw))
  THEN <<SubSeq(text, RunEnd(text, WhiteSpace, i + Len(kw)) + 1,
                RunEnd(text, IdentClass,
                       RunEnd(text, WhiteSpace, i + Len(kw)) + 1))>>
         \o StatedNamesFrom(text, kw,
              RunEnd(text, IdentClass,
                     RunEnd(text, WhiteSpace, i + Len(kw)) + 1) + 1)
  ELSE StatedNamesFrom(text, kw, i + 1)

StatedTables(text) ==
  FirstOccurrences(StatedNamesFrom(text, KwFrom, 1)
                     \o StatedNamesFrom(text, KwJoin, 1), {})

\* C23: the tables of a statement of ordinary SQL are the names after FROM
\* and after JOIN (FROM first), cut to their last dotted segment, each once:
\* 'select ... from a join b' gives [a, b].
C23_TablesExtracted ==
  (pc = "facts" /\ "\\" \notin Range(sql)) =>
    facts.tables = StatedTables(Lower(sql))

WrittenSqls ==
  {queries[i].sql :
     i \in {j \in DOMAIN queries : queries[j].site = "execute_write"}}

\* C26: with allow_write = true every statement validate_sql_write accepts is
\* allowed by the policy and handed to adapter.execute_write once, and the
\* result carries the row count execute_write returned.
C26_WritesPass ==
  (pc = "write" /\ allow_write /\ validate_sql_write(sql).ok) =>
    /\ decision.allowed
    /\ Len(queries) = 1
    /\ WrittenSqls = {sql}
    /\ ~db.write_fails =>
         "row_count" \in DOMAIN result /\ result.row_count = db.row_count

C28_Original ==
  (pc = "policy" /\ HighRisk) => ~decision.allowed

\* C28 (amended): a plan whose risk_score is at least 0.7 is denied by some
\* rule unless the fourth rule allows it first: the statement passes the
\* first three rules, has neither WHERE nor LIMIT, and safe_sql is not empty
\* and differs from the statement; then the decision is SAFE_LIMIT_APPLIED.
C28_HighRiskDenied ==
  (pc = "policy" /\ HighRisk) =>
    IF /\ ~WriteUnderReadOnly /\ ~SemicolonBeforeLast /\ JoinWords < 3
       /\ NoWhereNoLimit /\ SafeSqlDiffers
    THEN decision.allowed /\ decision.policy = "SAFE_LIMIT_APPLIED"
    ELSE ~decision.allowed

\* A high-risk plan of a write statement with a WHERE word, evaluated with
\* read_only off and stopped by the risk rule.
C28_Witness ==
  /\ pc = "policy"
  /\ HighRisk
  /\ ~read_only /\ ~StartsAsRead
  /\ HasWhereWord
  /\ ~decision.allowed
  /\ decision.policy = "RISK_THRESHOLD"

RequestIds == {"r1", "r2"}

NlQueries == {"all orders"}

\* What adapter.get_schema() answers.
TranslateSchemas ==
  { [dialect |-> "sqlite", tables |-> {"orders"}],
    [dialect |-> "sqlite", tables |-> {"orders", "users"}] }

\* What translate returns; the model may answer with no text at all.
Translations == {"", "select 1", "select 2"}

\* The translator the provider returns: translate declared async def, as in
\* the LlmTranslator port, or declared def, as in OpenAiTranslator.
TranslatorKinds == {"coroutine", "function"}

\* sha256 of the sorted JSON text of {"nl_query": ..., "schema": ...}: equal
\* for equal pairs, taken as different for different pairs.
build_cache_key(nl_query, sch) == [nl_query |-> nl_query, schema |-> sch]

\* if cached:
Truthy(cached) == cached # None /\ cached[1] # ""

\* The value set last for key when it is not empty and not older than
\* ttl_seconds.
FreshEntry(key) ==
  IF /\ key \in DOMAIN written
     /\ now - written[key].ts <= ttl_seconds
     /\ written[key].value # ""
  THEN <<written[key].value>>
  ELSE None

\* A request that has not been made: nl_query, the cache key, cache_hit and
\* sql of the returned dict, the number of translate calls, what translate
\* returned, and the fresh entry the lookup could have used.
IdleRequest ==
  [pc |-> "idle", nl_query |-> "", key |-> None, hit |-> FALSE,
   sql |-> None, calls |-> 0, answer |-> None, fresh |-> None]

\* TranslateUseCase(adapter_provider, translator_provider, cache) constructed.
InitTranslate ==
  /\ sql = <<>>
  /\ EarlyInit
  /\ schema = NoSchema
  /\ graph = NoGraph
  /\ ends = NoEnds
  /\ join_path = <<>>
  /\ facts = NoFacts
  /\ ttl_seconds \in TtlChoices
  /\ store = EmptyDict
  /\ now = 0
  /\ written = EmptyDict
  /\ op = NoOp
  /\ reqs = [r \in RequestIds |-> IdleRequest]
  /\ translator \in TranslatorKinds
  /\ allow_write = FALSE
  /\ pc = "translate"

\* execute_with_meta(nl_query) is called and waits for adapter.get_schema().
TranslateStart(r) ==
  /\ reqs[r].pc \in {"idle", "returned", "raised"}
  /\ \E q \in NlQueries :
       reqs' = [reqs EXCEPT ![r] =
                  [IdleRequest EXCEPT !.pc = "schema", !.nl_query = q]]
  /\ op' = [kind |-> "start", req |-> r]
  /\ UNCHANGED <<ttl_seconds, store, now, written, translator, sql, pc>>
  /\ UNCHANGED joinVars
  /\ UNCHANGED writeVars
  /\ UNCHANGED earlyVars

\* get_schema() raises: the request ends before the cache is read.
TranslateSchemaFailed(r) ==
  /\ reqs[r].pc = "schema"
  /\ reqs' = [reqs EXCEPT ![r].pc = "raised"]
  /\ op' = [kind |-> "raised", req |-> r]
  /\ UNCHANGED <<ttl_seconds, store, now, written, translator, sql, pc>>
  /\ UNCHANGED joinVars
  /\ UNCHANGED writeVars
  /\ UNCHANGED earlyVars

\* The schema arrives; the key is built and the cache read. A truthy value is
\* returned with cache_hit = True. Otherwise translate is called: a coroutine
\* is awaited; a plain function runs to its end and the await of the str it
\* returned raises TypeError.
TranslateLookup(r) ==
  /\ reqs[r].pc = "schema"
  /\ \E sch \in TranslateSchemas :
       \E key \in {build_cache_key(reqs[r].nl_query, sch)} :
         \E out \in {QueryCache_get(store, key, now, ttl_seconds)} :
           /\ store' = out.store
           /\ IF Truthy(out.value)
              THEN /\ reqs' = [reqs EXCEPT ![r].pc = "returned",
                                           ![r].key = <<key>>,
                                           ![r].fresh = FreshEntry(key),
                                           ![r].hit = TRUE,
                                           ![r].sql = out.value]
                   /\ op' = [kind |-> "returned", req |-> r]
              ELSE IF translator = "function"
              THEN /\ \E answer \in {<<a>> : a \in Translations} \cup {None} :
                        reqs' = [reqs EXCEPT ![r].pc = "raised",
                                             ![r].key = <<key>>,
                                             ![r].fresh = FreshEntry(key),
                                             ![r].calls = @ + 1,
                                             ![r].answer = answer]
                   /\ op' = [kind |-> "raised", req |-> r]
              ELSE /\ reqs' = [reqs EXCEPT ![r].pc = "translating",
                                           ![r].key = <<key>>,
                                           ![r].fresh = FreshEntry(key),
                                           ![r].calls = @ + 1]
                   /\ op' = [kind |-> "called", req |-> r]
  /\ UNCHANGED <<ttl_seconds, now, written, translator, sql, pc>>
  /\ UNCHANGED joinVars
  /\ UNCHANGED writeVars
  /\ UNCHANGED earlyVars

\* The awaited translate returns: the text is stored and returned with
\* cache_hit = False.
TranslateDone(r) ==
  /\ reqs[r].pc = "translating"
  /\ \E answer \in Translations :
       /\ store' = QueryCache_set(store, reqs[r].key[1], answer, now)
       /\ written' = QueryCache_set(written, reqs[r].key[1], answer, now)
       /\ reqs' = [reqs EXCEPT ![r].pc = "returned",
                               ![r].sql = <<answer>>,
                               ![r].answer = <<answer>>]
  /\ op' = [kind |-> "returned", req |-> r]
  /\ UNCHANGED <<ttl_seconds, now, translator, sql, pc>>
  /\ UNCHANGED joinVars
  /\ UNCHANGED writeVars
  /\ UNCHANGED earlyVars

\* The awaited translate raises.
TranslateFailed(r) ==
  /\ reqs[r].pc = "translating"
  /\ reqs' = [reqs EXCEPT ![r].pc = "raised"]
  /\ op' = [kind |-> "raised", req |-> r]
  /\ UNCHANGED <<ttl_seconds, store, now, written, translator, sql, pc>>
  /\ UNCHANGED joinVars
  /\ UNCHANGED writeVars
  /\ UNCHANGED earlyVars

NextTranslate ==
  \/ \E r \in RequestIds : TranslateStart(r)
  \/ \E r \in RequestIds : TranslateSchemaFailed(r)
  \/ \E r \in RequestIds : TranslateLookup(r)
  \/ \E r \in RequestIds : TranslateDone(r)
  \/ \E r \in RequestIds : TranslateFailed(r)
  \/ Tick

SpecTranslate == InitTranslate /\ [][NextTranslate]_vars

\* The request that has just ended.
JustEnded(r) == op.kind \in {"returned", "raised"} /\ op.req = r

\* C30: a request calls the translator at most once and only on a miss; a
\* request that finds a fresh non-empty translation stored for its
\* (nl_query, schema) returns it with cache_hit = TRUE and calls nothing; on
\* a miss the translator is called once and, when the request ends, what it
\* returned is stored under the key of (nl_query, schema).
C30_TranslateOnce ==
  \A r \in RequestIds :
    (reqs[r].pc \in {"returned", "raised"} /\ reqs[r].key # None) =>
      /\ reqs[r].calls <= 1
      /\ reqs[r].calls = 1 <=> ~reqs[r].hit
      /\ reqs[r].fresh # None =>
           /\ reqs[r].pc = "returned"
           /\ reqs[r].hit
           /\ reqs[r].sql = reqs[r].fresh
      /\ (JustEnded(r) /\ ~reqs[r].hit /\ reqs[r].answer # None) =>
           /\ reqs[r].key[1] \in DOMAIN written
           /\ written[reqs[r].key[1]] =
                [value |-> reqs[r].answer[1], ts |-> now]

====
